---------------------------- MODULE Spec2Model ----------------------------
(***************************************************************************)
(* Model of the self-play result analysis scripts of aho-ai:               *)
(*   scripts/analyze_results.py  (aggregation by game type, display, save) *)
(*   scripts/deep_analysis.py    (Wilson interval, chi-square, comparison) *)
(*   analyze_selfplay.py         (basic statistics of one results file)    *)
(*                                                                         *)
(* Python's float is IEEE-754 binary64.  TLC's integers are 32 bits wide,  *)
(* so a float is modelled bit-exactly as sign * m * 2^e with the 53-bit    *)
(* significand m held as a little-endian sequence of 15-bit limbs, and     *)
(* every operation rounds to nearest, ties to even, as the hardware does.  *)
(* Subnormals, infinities and NaN are outside the ranges reached here.     *)
(***************************************************************************)
EXTENDS Integers, Sequences, FiniteSets, TLC

(***************************************************************************)
(* Natural numbers of arbitrary size: little-endian limbs, no leading      *)
(* zero limb, <<>> is zero.                                                *)
(***************************************************************************)
\* F at v, and F at v and w, with the arguments evaluated once, whatever the
\* number of times F uses them
Once(v, F(_)) == CHOOSE r \in {F(x) : x \in {v}} : TRUE
Once2(v, w, F(_, _)) == CHOOSE r \in {F(x, y) : x \in {v}, y \in {w}} : TRUE

LimbBits == 15
Base == 2^LimbBits

Max2(a, b) == IF a >= b THEN a ELSE b
Min2(a, b) == IF a <= b THEN a ELSE b
Abs(n) == IF n < 0 THEN -n ELSE n

RECURSIVE BigNorm(_)
BigNorm(a) ==
    IF a = <<>> THEN <<>>
    ELSE IF a[Len(a)] = 0 THEN BigNorm(SubSeq(a, 1, Len(a) - 1))
    ELSE a

RECURSIVE BigOfNat(_)
BigOfNat(n) == IF n = 0 THEN <<>> ELSE <<n % Base>> \o BigOfNat(n \div Base)

Limb(a, i) == IF i <= Len(a) THEN a[i] ELSE 0

RECURSIVE BigAddFrom(_, _, _, _)
BigAddFrom(a, b, i, carry) ==
    IF i > Len(a) /\ i > Len(b)
    THEN (IF carry = 0 THEN <<>> ELSE <<carry>>)
    ELSE LET x == Limb(a, i) + Limb(b, i) + carry
         IN  <<x % Base>> \o BigAddFrom(a, b, i + 1, x \div Base)

BigAdd(a, b) == BigAddFrom(a, b, 1, 0)

\* a - b for a >= b
RECURSIVE BigSubFrom(_, _, _, _)
BigSubFrom(a, b, i, borrow) ==
    IF i > Len(a) THEN <<>>
    ELSE LET x == a[i] - Limb(b, i) - borrow
         IN  IF x < 0
             THEN <<x + Base>> \o BigSubFrom(a, b, i + 1, 1)
             ELSE <<x>> \o BigSubFrom(a, b, i + 1, 0)

BigSub(a, b) == BigNorm(BigSubFrom(a, b, 1, 0))

\* -1, 0, 1 as a < b, a = b, a > b
RECURSIVE BigCmpAt(_, _, _)
BigCmpAt(a, b, i) ==
    IF i = 0 THEN 0
    ELSE IF a[i] < b[i] THEN -1
    ELSE IF a[i] > b[i] THEN 1
    ELSE BigCmpAt(a, b, i - 1)

BigCmp(a, b) ==
    IF Len(a) < Len(b) THEN -1
    ELSE IF Len(a) > Len(b) THEN 1
    ELSE BigCmpAt(a, b, Len(a))

\* a * k for a limb-sized k
RECURSIVE BigMulSmallFrom(_, _, _, _)
BigMulSmallFrom(a, k, i, carry) ==
    IF i > Len(a)
    THEN (IF carry = 0 THEN <<>> ELSE <<carry>>)
    ELSE LET x == a[i] * k + carry
         IN  <<x % Base>> \o BigMulSmallFrom(a, k, i + 1, x \div Base)

BigMulSmall(a, k) == IF k = 0 THEN <<>> ELSE BigMulSmallFrom(a, k, 1, 0)

RECURSIVE BigMulFrom(_, _, _)
BigMulFrom(a, b, j) ==
    IF j > Len(b) THEN <<>>
    ELSE BigAdd(BigMulSmall(a, b[j]),
                LET rest == BigMulFrom(a, b, j + 1)
                IN  IF rest = <<>> THEN <<>> ELSE <<0>> \o rest)

BigMul(a, b) == IF a = <<>> \/ b = <<>> THEN <<>> ELSE BigMulFrom(a, b, 1)

\* floor(a / k) for a limb-sized k > 0, most significant limb first
RECURSIVE BigDivSmallAt(_, _, _, _)
BigDivSmallAt(a, k, i, rem) ==
    IF i = 0 THEN <<>>
    ELSE LET x == rem * Base + a[i]
         IN  BigDivSmallAt(a, k, i - 1, x % k) \o <<x \div k>>

BigDivSmall(a, k) == BigNorm(BigDivSmallAt(a, k, Len(a), 0))

\* a mod k for a limb-sized k > 0
RECURSIVE BigModSmall(_, _, _, _)
BigModSmall(a, k, i, rem) ==
    IF i = 0 THEN rem ELSE BigModSmall(a, k, i - 1, (rem * Base + a[i]) % k)

RECURSIVE ZeroLimbs(_)
ZeroLimbs(n) == IF n = 0 THEN <<>> ELSE <<0>> \o ZeroLimbs(n - 1)

RECURSIVE SmallBitLen(_)
SmallBitLen(n) == IF n = 0 THEN 0 ELSE 1 + SmallBitLen(n \div 2)

BigBitLen(a) ==
    IF a = <<>> THEN 0 ELSE LimbBits * (Len(a) - 1) + SmallBitLen(a[Len(a)])

\* a * 2^n
BigShl(a, n) ==
    IF a = <<>> THEN <<>>
    ELSE ZeroLimbs(n \div LimbBits) \o BigMulSmall(a, 2^(n % LimbBits))

\* floor(a / 2^n)
BigShr(a, n) ==
    IF n \div LimbBits >= Len(a) THEN <<>>
    ELSE BigDivSmall(SubSeq(a, n \div LimbBits + 1, Len(a)), 2^(n % LimbBits))

\* bit n (0 = least significant) of a
BigBit(a, n) == (Limb(a, n \div LimbBits + 1) \div 2^(n % LimbBits)) % 2

BigIsOdd(a) == a # <<>> /\ a[1] % 2 = 1

\* One limb of a quotient: the largest d with d * b <= r2, for b whose top
\* limb is at least Base / 2 and r2 < b * Base.  The estimate from the top
\* limbs is at most 2 too large.
DivDigit(r2, b) ==
    LET n    == Len(b)
        qhat == Min2((Limb(r2, n + 1) * Base + Limb(r2, n)) \div b[n], Base - 1)
    IN  IF BigCmp(BigMulSmall(b, qhat), r2) <= 0 THEN qhat
        ELSE IF BigCmp(BigMulSmall(b, qhat - 1), r2) <= 0 THEN qhat - 1
        ELSE qhat - 2

\* Long division of a by such a b, from limb i of a down; s holds the
\* quotient and the remainder of the limbs above i
RECURSIVE BigDivLimbs(_, _, _, _)
BigDivLimbs(a, b, i, s) ==
    IF i = 0 THEN s
    ELSE Once(BigNorm(<<a[i]>> \o s.r), LAMBDA r2 :
             Once(DivDigit(r2, b), LAMBDA d :
                 Once([q |-> <<d>> \o s.q, r |-> BigSub(r2, BigMulSmall(b, d))],
                      LAMBDA t : BigDivLimbs(a, b, i - 1, t))))

\* floor(a / b) and a mod b for b > 0
BigDivMod(a, b) ==
    Once2(a, b, LAMBDA x, y :
        LET sh == LimbBits - SmallBitLen(y[Len(y)])
        IN  Once(BigDivLimbs(BigShl(x, sh), BigShl(y, sh), Len(BigShl(x, sh)),
                             [q |-> <<>>, r |-> <<>>]),
                 LAMBDA s : [q |-> BigNorm(s.q), r |-> BigShr(s.r, sh)]))

\* floor(sqrt(a)) for a > 0 by Newton's iteration from x >= floor(sqrt(a))
RECURSIVE BigSqrtFrom(_, _)
BigSqrtFrom(a, x) ==
    Once(BigShr(BigAdd(x, BigDivMod(a, x).q), 1), LAMBDA y :
        IF BigCmp(y, x) >= 0 THEN x ELSE BigSqrtFrom(a, y))

BigSqrt(a) ==
    Once(a, LAMBDA v :
        IF v = <<>> THEN <<>>
        ELSE BigSqrtFrom(v, BigShl(<<1>>, (BigBitLen(v) + 1) \div 2)))

(***************************************************************************)
(* Python floats (binary64): [s |-> sign bit, m |-> significand, e |->     *)
(* exponent] stands for (-1)^s * m * 2^e.  A nonzero float is normalised   *)
(* to a significand of exactly Prec bits; zero is FloatZero (the sign of   *)
(* zero is not kept: -0.0 == 0.0 in every comparison the scripts make).    *)
(***************************************************************************)
Prec == 53

FloatZero == [s |-> 0, m |-> <<>>, e |-> 0]

\* The float nearest to (-1)^s * big * 2^e, ties to even
FloatRound(s, big, e) ==
    Once(big, LAMBDA b :
        IF b = <<>> THEN FloatZero
        ELSE LET len == BigBitLen(b)
             IN  IF len <= Prec
                 THEN [s |-> s, m |-> BigShl(b, Prec - len), e |-> e - (Prec - len)]
                 ELSE LET sh   == len - Prec
                          q    == BigShr(b, sh)
                          half == BigBit(b, sh - 1) = 1
                          rest == BigShl(BigShr(b, sh - 1), sh - 1) # b
                      IN  Once(IF half /\ (rest \/ BigIsOdd(q))
                               THEN BigAdd(q, <<1>>) ELSE q,
                               LAMBDA q2 :
                                   IF BigBitLen(q2) > Prec
                                   THEN [s |-> s, m |-> BigShr(q2, 1), e |-> e + sh + 1]
                                   ELSE [s |-> s, m |-> q2, e |-> e + sh]))

\* float(n) for an int n
float_of_int(n) == FloatRound(IF n < 0 THEN 1 ELSE 0, BigOfNat(Abs(n)), 0)

float_neg(x) == Once(x, LAMBDA a : IF a.m = <<>> THEN a ELSE [a EXCEPT !.s = 1 - a.s])

\* x + y
float_add(x, y) ==
    Once2(x, y, LAMBDA a, b :
        IF a.m = <<>> THEN b
        ELSE IF b.m = <<>> THEN a
        ELSE LET e == Min2(a.e, b.e)
             IN  Once2(BigShl(a.m, a.e - e), BigShl(b.m, b.e - e),
                       LAMBDA ma, mb :
                           LET c == BigCmp(ma, mb)
                           IN  IF a.s = b.s THEN FloatRound(a.s, BigAdd(ma, mb), e)
                               ELSE IF c = 0 THEN FloatZero
                               ELSE IF c > 0 THEN FloatRound(a.s, BigSub(ma, mb), e)
                               ELSE FloatRound(b.s, BigSub(mb, ma), e)))

\* x - y
float_sub(x, y) == float_add(x, float_neg(y))

\* x * y
float_mul(x, y) ==
    Once2(x, y, LAMBDA a, b :
        IF a.m = <<>> \/ b.m = <<>> THEN FloatZero
        ELSE FloatRound((a.s + b.s) % 2, BigMul(a.m, b.m), a.e + b.e))

\* x / y for y # 0: at least Prec + 3 quotient bits and a sticky bit, then
\* rounded.  A divisor whose significand is one limb (a small integer times
\* a power of two) is divided by in one pass over the limbs.
float_truediv(x, y) ==
    Once2(x, y, LAMBDA a, b :
        IF a.m = <<>> THEN FloatZero
        ELSE LET top   == BigShr(b.m, Prec - LimbBits)
                 small == BigShl(top, Prec - LimbBits) = b.m
                 sh    == IF small THEN LimbBits + 3 ELSE Prec + 3
                 e     == a.e - b.e - sh - 1
                          - (IF small THEN Prec - LimbBits ELSE 0)
             IN  Once(BigShl(a.m, sh), LAMBDA num :
                     Once(IF small THEN BigDivSmall(num, top[1])
                          ELSE BigDivMod(num, b.m).q,
                          LAMBDA quo :
                              LET exact == IF small
                                           THEN BigModSmall(num, top[1], Len(num), 0) = 0
                                           ELSE BigMul(quo, b.m) = num
                              IN  FloatRound((a.s + b.s) % 2,
                                             BigAdd(BigMulSmall(quo, 2),
                                                    IF exact THEN <<>> ELSE <<1>>),
                                             e))))

\* math.sqrt(x) for x >= 0: Prec + 2 root bits and a sticky bit, then rounded
math_sqrt(x) ==
    Once(x, LAMBDA a :
        IF a.m = <<>> THEN FloatZero
        ELSE LET k == IF a.e % 2 = 0 THEN Prec + 3 ELSE Prec + 4
             IN  Once(BigShl(a.m, k), LAMBDA n :
                     Once(BigSqrt(n), LAMBDA r :
                         FloatRound(0,
                                    BigAdd(BigMulSmall(r, 2),
                                           IF BigMul(r, r) = n THEN <<>> ELSE <<1>>),
                                    (a.e - k) \div 2 - 1))))

\* -1, 0, 1 as x < y, x == y, x > y
FloatSign(x) == Once(x, LAMBDA a : IF a.m = <<>> THEN 0 ELSE IF a.s = 1 THEN -1 ELSE 1)

FloatCmp(x, y) ==
    Once2(x, y, LAMBDA a, b :
        IF FloatSign(a) # FloatSign(b)
        THEN (IF FloatSign(a) < FloatSign(b) THEN -1 ELSE 1)
        ELSE IF FloatSign(a) = 0 THEN 0
        ELSE LET mag == IF a.e # b.e THEN (IF a.e < b.e THEN -1 ELSE 1)
                        ELSE BigCmp(a.m, b.m)
             IN  FloatSign(a) * mag)

float_lt(x, y) == FloatCmp(x, y) < 0
float_le(x, y) == FloatCmp(x, y) <= 0
float_eq(x, y) == FloatCmp(x, y) = 0

\* A decimal literal num/den (den a power of ten) as Python reads it: the
\* nearest float, which is also what the correctly rounded division gives
FloatLit(num, den) == float_truediv(float_of_int(num), float_of_int(den))

\* abs(x), and the float of an int or float operand of a mixed operation
float_abs(x) == Once(x, LAMBDA a : IF a.m = <<>> THEN a ELSE [a EXCEPT !.s = 0])

\* x / y where Python raises ZeroDivisionError for y == 0; a raised exception
\* takes the place of the value
ZeroDivisionError == [exc |-> "ZeroDivisionError"]

Raised(v) == "exc" \in DOMAIN v

truediv(x, y) == IF y.m = <<>> THEN ZeroDivisionError ELSE float_truediv(x, y)

(***************************************************************************)
(* Session records: the content of one selfplay_results_*.json file.       *)
(***************************************************************************)
Session(board, ai1, ai2, n, p1, p2, d, moves, time) ==
    [board_setup |-> board, ai1_strength |-> ai1, ai2_strength |-> ai2,
     total_games |-> n, p1_wins |-> p1, p2_wins |-> p2, draws |-> d,
     avg_moves |-> moves, avg_time_ms |-> time]

\* The files the directory may hold, one corpus per family of runs.
\* Well-formed sessions of two game types, among them sessions of no game
\* (one that still carries averages, one with averages of zero).
AggCorpus ==
    {Session("Fair", "Light", "Light", c[1], c[2], c[3], c[4],
             FloatLit(c[5], 10), FloatLit(c[6], 100)) :
        c \in {<<20, 12, 8, 0, 853, 152050>>, <<30, 15, 15, 0, 917, 180400>>,
               <<10, 3, 7, 0, 771, 96025>>, <<0, 0, 0, 0, 771, 96025>>}}
    \cup {Session("ShogiOnly", "Light", "Light", c[1], c[2], c[3], c[4],
                  FloatLit(c[5], 10), FloatLit(c[6], 100)) :
             c \in {<<10, 3, 7, 0, 771, 96025>>, <<0, 0, 0, 0, 0, 0>>}}

\* Well-formed and malformed sessions: counts that do not add up to
\* total_games, and a negative count.
MalformedCorpus ==
    {Session("Fair", "Light", "Light", c[1], c[2], c[3], c[4],
             FloatLit(c[5], 10), FloatLit(c[6], 100)) :
        c \in {<<10, 3, 7, 0, 771, 96025>>, <<7, 2, 3, 2, 640, 88000>>,
               <<10, 5, 3, 0, 853, 152050>>, <<6, -1, 7, 0, 917, 180400>>}}
    \cup {Session("ShogiOnly", "Light", "Light", c[1], c[2], c[3], c[4],
                  FloatLit(c[5], 10), FloatLit(c[6], 100)) :
             c \in {<<10, 3, 7, 0, 771, 96025>>, <<10, 5, 3, 0, 853, 152050>>}}

\* Sessions of different sizes and average lengths.
AvgCorpus ==
    {Session("Fair", "Light", "Light", c[1], c[2], c[3], c[4],
             FloatLit(c[5], 10), FloatLit(c[6], 100)) :
        c \in {<<10, 3, 7, 0, 200, 100000>>, <<90, 45, 40, 5, 1000, 200000>>,
               <<20, 12, 8, 0, 662, 152050>>, <<30, 15, 15, 0, 676, 180400>>,
               <<50, 20, 25, 5, 1292, 96025>>}}
    \cup {Session("ShogiOnly", "Light", "Light", 10, 3, 7, 0,
                  FloatLit(200, 10), FloatLit(100000, 100))}

\* Sessions that differ in their board and strength labels only.
KeyCorpus ==
    {Session("Fair", s[1], s[2], 10, 4, 4, 2,
             FloatLit(771, 10), FloatLit(96025, 100)) :
        s \in {<<"Light", "Light">>, <<"Light", "Strong">>,
               <<"Strong", "Light">>, <<"Light vs Light", "Light">>,
               <<"Light", "Light vs Light">>}}
    \cup {Session("ShogiOnly", "Light", "Strong", 10, 4, 4, 2,
                  FloatLit(771, 10), FloatLit(96025, 100))}

\* The number of results files the directory holds at most
MaxFiles == 3

(***************************************************************************)
(* analyze_results.py: load_all_results                                    *)
(***************************************************************************)
\* The game type key of a session
game_type(data) ==
    data.board_setup \o " (" \o data.ai1_strength \o " vs "
        \o data.ai2_strength \o ")"

\* What the defaultdict makes for a key seen for the first time
NewGroup ==
    [total_games |-> 0, p1_wins |-> 0, p2_wins |-> 0, draws |-> 0,
     total_moves |-> FloatZero, total_time_ms |-> FloatZero, files |-> <<>>,
     board_setup |-> "", ai1_strength |-> "", ai2_strength |-> ""]

\* Slips of the accumulation: `=` written for `+=` on total_games, the line
\* of draws left out, and the averages added without their weight.
Accumulate_Overwrite(group, data, name) ==
    [total_games   |-> data.total_games,
     p1_wins       |-> group.p1_wins + data.p1_wins,
     p2_wins       |-> group.p2_wins + data.p2_wins,
     draws         |-> group.draws + data.draws,
     total_moves   |-> float_add(group.total_moves,
                          float_mul(data.avg_moves, float_of_int(data.total_games))),
     total_time_ms |-> float_add(group.total_time_ms,
                          float_mul(data.avg_time_ms, float_of_int(data.total_games))),
     files         |-> Append(group.files, name),
     board_setup   |-> data.board_setup,
     ai1_strength  |-> data.ai1_strength,
     ai2_strength  |-> data.ai2_strength]

Accumulate_DrawsDropped(group, data, name) ==
    [total_games   |-> group.total_games + data.total_games,
     p1_wins       |-> group.p1_wins + data.p1_wins,
     p2_wins       |-> group.p2_wins + data.p2_wins,
     draws         |-> group.draws,
     total_moves   |-> float_add(group.total_moves,
                          float_mul(data.avg_moves, float_of_int(data.total_games))),
     total_time_ms |-> float_add(group.total_time_ms,
                          float_mul(data.avg_time_ms, float_of_int(data.total_games))),
     files         |-> Append(group.files, name),
     board_setup   |-> data.board_setup,
     ai1_strength  |-> data.ai1_strength,
     ai2_strength  |-> data.ai2_strength]

Accumulate_Unweighted(group, data, name) ==
    [total_games   |-> group.total_games + data.total_games,
     p1_wins       |-> group.p1_wins + data.p1_wins,
     p2_wins       |-> group.p2_wins + data.p2_wins,
     draws         |-> group.draws + data.draws,
     total_moves   |-> float_add(group.total_moves, data.avg_moves),
     total_time_ms |-> float_add(group.total_time_ms, data.avg_time_ms),
     files         |-> Append(group.files, name),
     board_setup   |-> data.board_setup,
     ai1_strength  |-> data.ai1_strength,
     ai2_strength  |-> data.ai2_strength]

\* The group of a key after one more session of that key
Accumulate(group, data, name) ==
    [total_games   |-> group.total_games + data.total_games,
     p1_wins       |-> group.p1_wins + data.p1_wins,
     p2_wins       |-> group.p2_wins + data.p2_wins,
     draws         |-> group.draws + data.draws,
     total_moves   |-> float_add(group.total_moves,
                          float_mul(data.avg_moves, float_of_int(data.total_games))),
     total_time_ms |-> float_add(group.total_time_ms,
                          float_mul(data.avg_time_ms, float_of_int(data.total_games))),
     files         |-> Append(group.files, name),
     board_setup   |-> data.board_setup,
     ai1_strength  |-> data.ai1_strength,
     ai2_strength  |-> data.ai2_strength]

\* One pass of the loop over results_files: file `name` holding `data`
IngestFile(g, data, name) ==
    LET key == game_type(data)
    IN  [k \in DOMAIN g \cup {key} |->
            IF k = key
            THEN Accumulate(IF key \in DOMAIN g THEN g[key] ELSE NewGroup,
                            data, name)
            ELSE g[k]]

\* The whole loop over the files holding `sessions`, named first..
RECURSIVE load_all_results(_, _, _)
load_all_results(g, sessions, i) ==
    IF i > Len(sessions) THEN g
    ELSE load_all_results(IngestFile(g, sessions[i].data, sessions[i].name),
                          sessions, i + 1)

NoGroups == [k \in {} |-> NewGroup]

(***************************************************************************)
(* analyze_results.py: display_game_type_statistics, analyze_single_file,  *)
(* and the record main saves per game type                                 *)
(***************************************************************************)
\* Slip of a rate: the fraction, `* 100` left out
RateOrZero_NoPercent(n, total) ==
    IF total > 0 THEN float_truediv(float_of_int(n), float_of_int(total))
    ELSE FloatZero

\* (n / total * 100) if total > 0 else 0
RateOrZero(n, total) ==
    IF total > 0
    THEN float_mul(float_truediv(float_of_int(n), float_of_int(total)),
                   float_of_int(100))
    ELSE FloatZero

\* Slips of the two chains of thresholds: `<=` written for `<`
BalanceStatus_Inclusive(win_diff) ==
    IF float_le(win_diff, float_of_int(5)) THEN "Excellent balance"
    ELSE IF float_le(win_diff, float_of_int(10)) THEN "Good balance"
    ELSE IF float_le(win_diff, float_of_int(20)) THEN "Slight imbalance"
    ELSE "Significant imbalance"

SampleSize_Inclusive(total) ==
    IF total <= 10 THEN "Very small sample"
    ELSE IF total <= 50 THEN "Small sample"
    ELSE IF total <= 100 THEN "Moderate sample size"
    ELSE "Large sample size"

BalanceStatus(win_diff) ==
    IF float_lt(win_diff, float_of_int(5)) THEN "Excellent balance"
    ELSE IF float_lt(win_diff, float_of_int(10)) THEN "Good balance"
    ELSE IF float_lt(win_diff, float_of_int(20)) THEN "Slight imbalance"
    ELSE "Significant imbalance"

SampleSize(total) ==
    IF total < 10 THEN "Very small sample"
    ELSE IF total < 50 THEN "Small sample"
    ELSE IF total < 100 THEN "Moderate sample size"
    ELSE "Large sample size"

\* Slip of the warning: `or` written for `and`
ImbalanceWarning_Or(win_diff, total) ==
    float_lt(float_of_int(15), win_diff) \/ total >= 10

\* win_diff > 15 and total >= 10: "Win rate imbalance detected" is printed
ImbalanceWarning(win_diff, total) ==
    float_lt(float_of_int(15), win_diff) /\ total >= 10

\* What the display prints for one game type
display_game_type_statistics(data) ==
    LET total == data.total_games
    IN  IF total = 0 THEN [printed |-> "No games played"]
        ELSE
        Once2(RateOrZero(data.p1_wins, total), RateOrZero(data.p2_wins, total),
              LAMBDA p1_rate, p2_rate :
        Once(float_abs(float_sub(p1_rate, p2_rate)), LAMBDA win_diff :
             [printed    |-> "statistics",
              total      |-> total,
              n_files    |-> Len(data.files),
              avg_moves  |-> float_truediv(data.total_moves, float_of_int(total)),
              avg_time_s |-> float_truediv(
                                 float_truediv(data.total_time_ms, float_of_int(total)),
                                 float_of_int(1000)),
              p1_rate    |-> p1_rate,
              p2_rate    |-> p2_rate,
              draw_rate  |-> RateOrZero(data.draws, total),
              win_diff   |-> win_diff,
              status     |-> BalanceStatus(win_diff),
              sample     |-> SampleSize(total),
              imbalance_warning |-> ImbalanceWarning(win_diff, total)]))

\* The entry of output_data main builds for one game type
OutputRecord(data) ==
    LET total == data.total_games
    IN  [total_games |-> total,
         p1_wins     |-> data.p1_wins,
         p2_wins     |-> data.p2_wins,
         draws       |-> data.draws,
         p1_win_rate |-> RateOrZero(data.p1_wins, total),
         p2_win_rate |-> RateOrZero(data.p2_wins, total),
         draw_rate   |-> RateOrZero(data.draws, total),
         avg_moves   |-> IF total > 0
                         THEN float_truediv(data.total_moves, float_of_int(total))
                         ELSE FloatZero,
         avg_time_s  |-> IF total > 0
                         THEN float_truediv(
                                  float_truediv(data.total_time_ms, float_of_int(total)),
                                  float_of_int(1000))
                         ELSE FloatZero,
         source_files |-> data.files,
         board_setup  |-> data.board_setup,
         ai1_strength |-> data.ai1_strength,
         ai2_strength |-> data.ai2_strength]

\* analyze_single_file: the file's session in the shape the display expects
analyze_single_file(data, name) ==
    display_game_type_statistics(
        [total_games   |-> data.total_games,
         p1_wins       |-> data.p1_wins,
         p2_wins       |-> data.p2_wins,
         draws         |-> data.draws,
         total_moves   |-> float_mul(data.avg_moves, float_of_int(data.total_games)),
         total_time_ms |-> float_mul(data.avg_time_ms, float_of_int(data.total_games)),
         files         |-> <<name>>,
         board_setup   |-> data.board_setup,
         ai1_strength  |-> data.ai1_strength,
         ai2_strength  |-> data.ai2_strength])

(***************************************************************************)
(* analyze_selfplay.py: analyze_basic_stats                                *)
(***************************************************************************)
\* n / total * 100, where the division may raise
Percent(n, total) ==
    LET q == truediv(float_of_int(n), float_of_int(total))
    IN  IF Raised(q) THEN q ELSE float_mul(q, float_of_int(100))

analyze_basic_stats(data) ==
    LET p1 == Percent(data.p1_wins, data.total_games)
        p2 == Percent(data.p2_wins, data.total_games)
        dr == Percent(data.draws, data.total_games)
    IN  IF Raised(p1) THEN [printed |-> p1.exc]
        ELSE [printed    |-> "statistics",
              total      |-> data.total_games,
              p1_rate    |-> p1,
              p2_rate    |-> p2,
              draw_rate  |-> dr,
              avg_moves  |-> data.avg_moves,
              avg_time_s |-> float_truediv(data.avg_time_ms, float_of_int(1000))]

(***************************************************************************)
(* deep_analysis.py: calculate_confidence_interval                         *)
(***************************************************************************)
ValueError == [exc |-> "ValueError"]

\* math.sqrt(x), which raises ValueError for x < 0
sqrt_or_raise(x) ==
    Once(x, LAMBDA a : IF FloatSign(a) < 0 THEN ValueError ELSE math_sqrt(a))

\* z = 1.96 if confidence == 0.95 else 2.576
ZScore(confidence) ==
    IF float_eq(confidence, FloatLit(95, 100)) THEN FloatLit(196, 100)
    ELSE FloatLit(2576, 1000)

\* Slip of the lower bound: max(0, ...) left out
ClampLow_Unclamped(x) == float_mul(x, float_of_int(100))

\* Slip of the upper bound: max(1, ...) written for min(1, ...)
ClampHigh_Max(x) ==
    Once(x, LAMBDA a :
        IF float_lt(float_of_int(1), a) THEN float_mul(a, float_of_int(100))
        ELSE float_of_int(100))

\* max(0, x) * 100 and min(1, x) * 100
ClampLow(x) ==
    Once(x, LAMBDA a :
        IF float_lt(float_of_int(0), a) THEN float_mul(a, float_of_int(100))
        ELSE FloatZero)

ClampHigh(x) ==
    Once(x, LAMBDA a :
        IF float_lt(a, float_of_int(1)) THEN float_mul(a, float_of_int(100))
        ELSE float_of_int(100))

\* The Wilson score interval, from `p = wins / total` on, one binding for
\* each assignment.  z**2 is the correctly rounded square, z * z.
WilsonScore(wins, total, confidence) ==
    Once2(truediv(float_of_int(wins), float_of_int(total)), ZScore(confidence),
          LAMBDA p, z :
    IF Raised(p) THEN p
    ELSE
    Once(float_mul(z, z), LAMBDA zz :
    Once(float_add(float_of_int(1), float_truediv(zz, float_of_int(total))),
         LAMBDA denominator :
    Once2(float_truediv(
              float_add(p, float_truediv(zz, float_of_int(2 * total))),
              denominator),
          sqrt_or_raise(
              float_add(
                  float_truediv(float_mul(p, float_sub(float_of_int(1), p)),
                                float_of_int(total)),
                  float_truediv(zz, float_of_int(4 * total * total)))),
          LAMBDA center, root :
    IF Raised(root) THEN root
    ELSE
    Once(float_truediv(float_mul(z, root), denominator), LAMBDA margin :
        [low  |-> ClampLow(float_sub(center, margin)),
         high |-> ClampHigh(float_add(center, margin))])))))

\* Slip of the guard: `if total == 0` left out
calculate_confidence_interval_Unguarded(wins, total, confidence) ==
    WilsonScore(wins, total, confidence)

calculate_confidence_interval(wins, total, confidence) ==
    IF total = 0 THEN [low |-> FloatZero, high |-> FloatZero]
    ELSE WilsonScore(wins, total, confidence)

\* The largest number of trials an interval is asked for
MaxTrials == 24

\* The confidence levels asked for: the default, and two others
Confidences == {FloatLit(95, 100), FloatLit(99, 100), FloatLit(90, 100)}

(***************************************************************************)
(* deep_analysis.py: chi_square_test                                       *)
(***************************************************************************)
\* x**2 of a float
float_sq(x) == Once(x, LAMBDA a : float_mul(a, a))

\* (p1_wins - expected_wins)**2 / expected_wins
\*     + (p2_wins - expected_wins)**2 / expected_wins
ChiSquareStatistic(p1_wins, p2_wins, expected_wins) ==
    Once(expected_wins, LAMBDA e :
    Once2(truediv(float_sq(float_sub(float_of_int(p1_wins), e)), e),
          truediv(float_sq(float_sub(float_of_int(p2_wins), e)), e),
          LAMBDA t1, t2 :
              IF Raised(t1) THEN t1
              ELSE IF Raised(t2) THEN t2
              ELSE float_add(t1, t2)))

\* Slip of a critical value: 3.481 typed for 3.841
Significance_Typo(chi_square) ==
    Once(chi_square, LAMBDA x :
        IF float_lt(x, FloatLit(3481, 1000)) THEN "Not significant (p > 0.05)"
        ELSE IF float_lt(x, FloatLit(6635, 1000)) THEN "Significant (p < 0.05)"
        ELSE IF float_lt(x, FloatLit(10828, 1000)) THEN "Very significant (p < 0.01)"
        ELSE "Extremely significant (p < 0.001)")

\* The chain of critical values, one degree of freedom
Significance(chi_square) ==
    Once(chi_square, LAMBDA x :
        IF float_lt(x, FloatLit(3841, 1000)) THEN "Not significant (p > 0.05)"
        ELSE IF float_lt(x, FloatLit(6635, 1000)) THEN "Significant (p < 0.05)"
        ELSE IF float_lt(x, FloatLit(10828, 1000)) THEN "Very significant (p < 0.01)"
        ELSE "Extremely significant (p < 0.001)")

\* (chi_square, significance), or the exception a division raised
Tested(chi_square) ==
    Once(chi_square, LAMBDA x :
        IF Raised(x) THEN x
        ELSE [statistic |-> x, significance |-> Significance(x)])

\* Slips of chi_square_test: `if total == 0` left out, `if expected_wins
\* == 0` left out, and the draws counted among the expected wins
chi_square_test_NoTotalGuard(p1_wins, p2_wins, draws) ==
    Once(float_truediv(float_of_int(p1_wins + p2_wins), float_of_int(2)),
         LAMBDA expected_wins :
             IF expected_wins = FloatZero
             THEN [statistic |-> FloatZero,
                   significance |-> "N/A (no decisive games)"]
             ELSE Tested(ChiSquareStatistic(p1_wins, p2_wins, expected_wins)))

chi_square_test_NoDecisiveGuard(p1_wins, p2_wins, draws) ==
    IF p1_wins + p2_wins + draws = 0
    THEN [statistic |-> FloatZero, significance |-> "N/A"]
    ELSE Tested(ChiSquareStatistic(p1_wins, p2_wins,
             float_truediv(float_of_int(p1_wins + p2_wins), float_of_int(2))))

chi_square_test_DrawsExpected(p1_wins, p2_wins, draws) ==
    IF p1_wins + p2_wins + draws = 0
    THEN [statistic |-> FloatZero, significance |-> "N/A"]
    ELSE Tested(ChiSquareStatistic(p1_wins, p2_wins,
             float_truediv(float_of_int(p1_wins + p2_wins + draws),
                           float_of_int(2))))

chi_square_test(p1_wins, p2_wins, draws) ==
    IF p1_wins + p2_wins + draws = 0
    THEN [statistic |-> FloatZero, significance |-> "N/A"]
    ELSE Once(float_truediv(float_of_int(p1_wins + p2_wins), float_of_int(2)),
              LAMBDA expected_wins :
                  IF expected_wins = FloatZero
                  THEN [statistic |-> FloatZero,
                        significance |-> "N/A (no decisive games)"]
                  ELSE Tested(ChiSquareStatistic(p1_wins, p2_wins, expected_wins)))

\* The largest number of wins of a seat, and of draws, a test is asked for
MaxWins == 30
MaxDraws == 2

(***************************************************************************)
(* deep_analysis.py: analyze_board_comparison and main                     *)
(***************************************************************************)
\* Results files of three game types: Fair with player 1 ahead (60% to 40%)
\* and with player 2 ahead, which together are even; ShogiOnly with player
\* 2 ahead (35% to 65%) and shorter games; ChessOnly even, with games as
\* long as those of Fair
CompareCorpus ==
    {Session("Fair", "Light", "Light", 20, 12, 8, 0,
             FloatLit(853, 10), FloatLit(152050, 100)),
     Session("Fair", "Light", "Light", 20, 8, 12, 0,
             FloatLit(853, 10), FloatLit(152050, 100)),
     Session("ShogiOnly", "Light", "Light", 20, 7, 13, 0,
             FloatLit(771, 10), FloatLit(96025, 100)),
     Session("ChessOnly", "Light", "Light", 30, 15, 15, 0,
             FloatLit(853, 10), FloatLit(180400, 100))}

\* The keys of the saved file in the order of the file, which is the order
\* the game types were first met in results_files
RECURSIVE KeysInOrder(_, _)
KeysInOrder(files, i) ==
    IF i = 0 THEN <<>>
    ELSE LET before == KeysInOrder(files, i - 1)
             key    == game_type(files[i].data)
         IN  IF \E j \in 1..Len(before) : before[j] = key THEN before
             ELSE Append(before, key)

\* 2. WIN RATE ANALYSIS, for one group: its rates, the 95% intervals of the
\* two seats and the chi-square test
WinRateAnalysis(data) ==
    [p1_rate   |-> data.p1_win_rate,
     p2_rate   |-> data.p2_win_rate,
     draw_rate |-> data.draw_rate,
     p1_ci     |-> calculate_confidence_interval(data.p1_wins, data.total_games,
                                                 FloatLit(95, 100)),
     p2_ci     |-> calculate_confidence_interval(data.p2_wins, data.total_games,
                                                 FloatLit(95, 100)),
     chi       |-> chi_square_test(data.p1_wins, data.p2_wins, data.draws)]

\* 3. IMBALANCE MAGNITUDE: abs(p1_win_rate - p2_win_rate)
Magnitude(data) == float_abs(float_sub(data.p1_win_rate, data.p2_win_rate))

\* 4. DIRECTION OF BIAS:
\* "Player 1" if data['p1_win_rate'] > data['p2_win_rate'] else "Player 2"
Winner(data) ==
    IF float_lt(data.p2_win_rate, data.p1_win_rate) THEN "Player 1"
    ELSE "Player 2"

\* 5. GAME COMPLEXITY: ((v1 - v2) / v2) * 100 if v2 > 0 else 0
DiffPct(v1, v2) ==
    Once2(v1, v2, LAMBDA a, b :
        IF float_lt(float_of_int(0), b)
        THEN float_mul(float_truediv(float_sub(a, b), b), float_of_int(100))
        ELSE FloatZero)

\* "High" if total >= 50 else "Moderate" if total >= 20 else "Low"
ConfidenceLevel(total) ==
    IF total >= 50 THEN "High" ELSE IF total >= 20 THEN "Moderate" ELSE "Low"

\* 7. STATISTICAL CONFIDENCE, for one group; nothing is printed for a group
\* without a decisive game
StatisticalConfidence(data) ==
    LET decisive == data.p1_wins + data.p2_wins
    IN  IF decisive > 0
        THEN [observed_ratio |->
                  float_truediv(float_of_int(Max2(data.p1_wins, data.p2_wins)),
                                float_of_int(decisive)),
              moe |-> float_mul(
                          float_mul(FloatLit(196, 100),
                                    math_sqrt(float_truediv(FloatLit(1, 4),
                                                            float_of_int(decisive)))),
                          float_of_int(100)),
              confidence_level |-> ConfidenceLevel(data.total_games)]
        ELSE [printed |-> "nothing"]

\* What the comparison of two game types prints, section by section
analyze_board_comparison(name1, data1, name2, data2) ==
    Once2(Winner(data1), Winner(data2), LAMBDA winner1, winner2 :
        [printed     |-> "comparison",
         sample_size |-> <<data1.total_games, data2.total_games>>,
         win_rates   |-> <<WinRateAnalysis(data1), WinRateAnalysis(data2)>>,
         diff1       |-> Magnitude(data1),
         diff2       |-> Magnitude(data2),
         winner1     |-> winner1,
         winner2     |-> winner2,
         opposite    |-> winner1 # winner2,
         complexity  |-> <<[name |-> name1, avg_moves |-> data1.avg_moves,
                            avg_time_s |-> data1.avg_time_s],
                           [name |-> name2, avg_moves |-> data2.avg_moves,
                            avg_time_s |-> data2.avg_time_s]>>,
         moves_diff_pct |-> DiffPct(data1.avg_moves, data2.avg_moves),
         time_diff_pct  |-> DiffPct(data1.avg_time_s, data2.avg_time_s),
         confidence  |-> <<StatisticalConfidence(data1),
                           StatisticalConfidence(data2)>>])

(***************************************************************************)
(* summary_report.py: generate_summary_report                              *)
(***************************************************************************)
KeyError == [exc |-> "KeyError"]

\* data.get(key, {}): the saved record of the game type, or an empty dict
GetOrEmpty(data, key) == IF key \in DOMAIN data THEN data[key] ELSE <<>>

\* What the report prints from the executive summary to the statistical
\* confidence: the figures read from the saved file, and the figures and
\* findings written in the text of the report.  Reading a figure of a game
\* type that the file does not hold raises KeyError.
generate_summary_report(data) ==
    LET shogi_data == GetOrEmpty(data, "ShogiOnly (Light vs Light)")
        fair_data  == GetOrEmpty(data, "Fair (Light vs Light)")
    IN  IF shogi_data = <<>> \/ fair_data = <<>> THEN KeyError
        ELSE [printed      |-> "summary",
              total_games  |-> shogi_data.total_games,
              p2_win_rate  |-> shogi_data.p2_win_rate,
              p1_win_rate  |-> shogi_data.p1_win_rate,
              win_diff     |-> float_abs(float_sub(shogi_data.p1_win_rate,
                                                   shogi_data.p2_win_rate)),
              finding      |-> "statistically significant imbalance",
              significance |-> "p < 0.01",
              chi_square   |-> "9.09",
              shogi_favors |-> "Player 2",
              shogi_rate   |-> "64.0",
              fair_favors  |-> "Player 1",
              fair_rate    |-> "60.0",
              opposite     |-> TRUE,
              longer       |-> "37.3",
              shogi_moves  |-> shogi_data.avg_moves,
              fair_moves   |-> fair_data.avg_moves,
              fair_games   |-> fair_data.total_games,
              shogi_moe    |-> "14.8",
              fair_moe     |-> "18.9"]

(***************************************************************************)
(* bump_version.py.  A version is text: a sequence of characters.          *)
(***************************************************************************)
DigitChars == <<"0", "1", "2", "3", "4", "5", "6", "7", "8", "9">>

IsDigit(ch) == \E d \in 1..10 : DigitChars[d] = ch
DigitValue(ch) == (CHOOSE d \in 1..10 : DigitChars[d] = ch) - 1

\* The last index of the longest run of digits of text from index i on
\* (i - 1 if there is none): what a greedy \d+ takes
RECURSIVE RunEnd(_, _)
RunEnd(text, i) ==
    IF i <= Len(text) /\ IsDigit(text[i]) THEN RunEnd(text, i + 1) ELSE i - 1

\* int() of the digits text[i..j]
RECURSIVE int_of_digits(_, _, _)
int_of_digits(text, i, j) ==
    IF j < i THEN 0
    ELSE 10 * int_of_digits(text, i, j - 1) + DigitValue(text[j])

\* str() of a natural number
RECURSIVE str_of_int(_)
str_of_int(n) ==
    IF n < 10 THEN <<DigitChars[n + 1]>>
    ELSE Append(str_of_int(n \div 10), DigitChars[(n % 10) + 1])

\* re.match(r'(\d+)\.(\d+)\.(\d+)', version_str): three runs of digits
\* parted by dots at the start of the text; what follows is not looked at
parse_version(version_str) ==
    LET e1 == RunEnd(version_str, 1)
        e2 == RunEnd(version_str, e1 + 2)
        e3 == RunEnd(version_str, e2 + 2)
        dot(i) == i <= Len(version_str) /\ version_str[i] = "."
    IN  IF e1 >= 1 /\ dot(e1 + 1) /\ e2 >= e1 + 2 /\ dot(e2 + 1) /\ e3 >= e2 + 2
        THEN [major |-> int_of_digits(version_str, 1, e1),
              minor |-> int_of_digits(version_str, e1 + 2, e2),
              patch |-> int_of_digits(version_str, e2 + 2, e3)]
        ELSE ValueError

\* f"{major}.{minor}.{patch}"
FormatVersion(major, minor, patch) ==
    str_of_int(major) \o <<".">> \o str_of_int(minor) \o <<".">>
        \o str_of_int(patch)

\* Slip of the minor bump: the patch number is not reset
bump_version_PatchKept(current_version, bump_type) ==
    LET v == parse_version(current_version)
    IN  IF Raised(v) THEN v
        ELSE IF bump_type = "major"
        THEN [value |-> FormatVersion(v.major + 1, 0, 0)]
        ELSE IF bump_type = "minor"
        THEN [value |-> FormatVersion(v.major, v.minor + 1, v.patch)]
        ELSE IF bump_type = "patch"
        THEN [value |-> FormatVersion(v.major, v.minor, v.patch + 1)]
        ELSE ValueError

\* The new version text, or the ValueError of an invalid version or type
bump_version(current_version, bump_type) ==
    LET v == parse_version(current_version)
    IN  IF Raised(v) THEN v
        ELSE IF bump_type = "major"
        THEN [value |-> FormatVersion(v.major + 1, 0, 0)]
        ELSE IF bump_type = "minor"
        THEN [value |-> FormatVersion(v.major, v.minor + 1, 0)]
        ELSE IF bump_type = "patch"
        THEN [value |-> FormatVersion(v.major, v.minor, v.patch + 1)]
        ELSE ValueError

\* get_current_version: the text between the quotes of the version line,
\* which [^"]+ wants not empty
get_current_version(cargo_toml) ==
    IF cargo_toml = <<>> THEN ValueError ELSE [value |-> cargo_toml]

\* The version lines Cargo.toml may start with: plain versions, also at the
\* turn of a digit; a version with leading zeros; one with a suffix; and
\* texts that are no version
CargoVersions ==
    {<<"0", ".", "3", ".", "1">>,
     <<"0", ".", "9", ".", "9">>,
     <<"0", "1", ".", "0", "0", ".", "0", "7">>,
     <<"1", ".", "2", ".", "3", "-", "r", "c">>,
     <<"0", ".", "3">>,
     <<"v", "1", ".", "0", ".", "0">>,
     <<>>}

\* The largest number a part of the version is bumped to
MaxPart == 11

(***************************************************************************)
(* State.                                                                  *)
(*   corpus      the sessions a results file of this run may hold          *)
(*   pc          "start", then "loading" (in the loop of load_all_results),*)
(*               "reported" (main of analyze_results.py has displayed and  *)
(*               saved), "single" (analyze_results.py -f FILE is done),    *)
(*               "basic" (analyze_selfplay.py has printed its statistics)  *)
(*   sessions    the files read so far, in the order of results_files:     *)
(*               [name |-> position in results_files, data |-> content]    *)
(*   grouped     the defaultdict of load_all_results                       *)
(*   displayed   per game type, what display_game_type_statistics printed; *)
(*               for "single" and "basic", what was printed for the file   *)
(*   output_data what main saved to scripts/analyze_results.json           *)
(*   call        the function of deep_analysis.py called directly, with    *)
(*               its arguments                                             *)
(*   result      what that call returned or raised                         *)
(*   disk        the files of the project root the maintenance scripts     *)
(*               rewrite: the version line of Cargo.toml, the evaluation   *)
(*               multiplier of ai_config.json                              *)
(***************************************************************************)
VARIABLES corpus, pc, sessions, grouped, displayed, output_data, call, result, disk

vars == <<corpus, pc, sessions, grouped, displayed, output_data, call, result, disk>>

\* Nothing printed yet, and no file saved
Nothing == [printed |-> "nothing"]
NotSaved == <<>>
NoCall == [fn |-> "none"]

\* No file of the project root is read or written by the analysis scripts
NoFiles == <<>>

InitWith(c) ==
    /\ disk = NoFiles
    /\ corpus = c
    /\ pc = "start"
    /\ sessions = <<>>
    /\ grouped = NoGroups
    /\ displayed = Nothing
    /\ output_data = NotSaved
    /\ call = NoCall
    /\ result = Nothing

\* analyze_results.py without options: main calls load_all_results
StartLoad ==
    /\ pc = "start"
    /\ pc' = "loading"
    /\ UNCHANGED <<corpus, sessions, grouped, displayed, output_data, call, result, disk>>

\* One pass of the loop: the next file of results_files is read and added
Ingest ==
    /\ pc = "loading"
    /\ Len(sessions) < MaxFiles
    /\ \E data \in corpus :
          LET name == Len(sessions) + 1
          IN  /\ grouped' = IngestFile(grouped, data, name)
              /\ sessions' = Append(sessions, [name |-> name, data |-> data])
    /\ UNCHANGED <<corpus, pc, displayed, output_data, call, result, disk>>

\* The loop is over: main displays every game type and saves output_data;
\* with no results file it only prints "No game results found"
Report ==
    /\ pc = "loading"
    /\ pc' = "reported"
    /\ IF DOMAIN grouped = {}
       THEN UNCHANGED <<displayed, output_data>>
       ELSE /\ displayed' = [k \in DOMAIN grouped |->
                                display_game_type_statistics(grouped[k])]
            /\ output_data' = [k \in DOMAIN grouped |-> OutputRecord(grouped[k])]
    /\ UNCHANGED <<corpus, sessions, grouped, call, result, disk>>

\* analyze_results.py -f FILE
SingleFile ==
    /\ pc = "start"
    /\ \E data \in corpus :
          /\ sessions' = <<[name |-> 1, data |-> data]>>
          /\ displayed' = analyze_single_file(data, 1)
    /\ pc' = "single"
    /\ UNCHANGED <<corpus, grouped, output_data, call, result, disk>>

\* analyze_selfplay.py FILE
BasicStats ==
    /\ pc = "start"
    /\ \E data \in corpus :
          /\ sessions' = <<[name |-> 1, data |-> data]>>
          /\ displayed' = analyze_basic_stats(data)
    /\ pc' = "basic"
    /\ UNCHANGED <<corpus, grouped, output_data, call, result, disk>>

Next == StartLoad \/ Ingest \/ Report \/ SingleFile \/ BasicStats

Init == InitWith(AggCorpus)
Spec == Init /\ [][Next]_vars

InitMalformed == InitWith(MalformedCorpus)
SpecMalformed == InitMalformed /\ [][Next]_vars

InitAvg == InitWith(AvgCorpus)
SpecAvg == InitAvg /\ [][Next]_vars

InitKey == InitWith(KeyCorpus)
SpecKey == InitKey /\ [][Next]_vars

(***************************************************************************)
(* The functions of deep_analysis.py, each called once on arguments of its *)
(* domain.                                                                 *)
(***************************************************************************)
\* wins from one below to one above the range 0..total, and any wins for no
\* trial at all
CallConfidenceInterval ==
    /\ pc = "start"
    /\ \E total \in 0..MaxTrials, wins \in -1..(MaxTrials + 1),
          confidence \in Confidences :
          /\ total = 0 \/ wins <= total + 1
          /\ call' = [fn |-> "calculate_confidence_interval", wins |-> wins,
                      total |-> total, confidence |-> confidence]
          /\ result' = calculate_confidence_interval(wins, total, confidence)
    /\ pc' = "returned"
    /\ UNCHANGED <<corpus, sessions, grouped, displayed, output_data, disk>>

NextWilson == CallConfidenceInterval

InitWilson == InitWith({})
SpecWilson == InitWilson /\ [][NextWilson]_vars

\* chi_square_test on the counts of a group
CallChiSquare ==
    /\ pc = "start"
    /\ \E p1_wins \in 0..MaxWins, p2_wins \in 0..MaxWins, draws \in 0..MaxDraws :
          /\ call' = [fn |-> "chi_square_test", p1_wins |-> p1_wins,
                      p2_wins |-> p2_wins, draws |-> draws]
          /\ result' = chi_square_test(p1_wins, p2_wins, draws)
    /\ pc' = "returned"
    /\ UNCHANGED <<corpus, sessions, grouped, displayed, output_data, disk>>

NextChi == CallChiSquare
InitChi == InitWith({})
SpecChi == InitChi /\ [][NextChi]_vars

\* The draws of a reported group: a few, or so many that the group is large
DrawCounts == (0..MaxDraws) \cup {MaxWins + 10}

\* main of analyze_results.py on one game type: the group of one results
\* file is displayed and its entry of output_data is built
ReportGroup ==
    /\ pc = "start"
    /\ \E p1_wins \in 0..MaxWins, p2_wins \in 0..MaxWins, draws \in DrawCounts :
          LET data  == Session("Fair", "Light", "Light",
                               p1_wins + p2_wins + draws, p1_wins, p2_wins, draws,
                               FloatLit(771, 10), FloatLit(96025, 100))
              group == Accumulate(NewGroup, data, 1)
          IN  /\ call' = [fn |-> "display_game_type_statistics", data |-> group]
              /\ result' = [shown |-> display_game_type_statistics(group),
                            saved |-> OutputRecord(group)]
    /\ pc' = "returned"
    /\ UNCHANGED <<corpus, sessions, grouped, displayed, output_data, disk>>

NextReport == ReportGroup
InitReport == InitWith({})
SpecReport == InitReport /\ [][NextReport]_vars

\* Both halves of a verdict: the display of a group and its chi-square test
NextVerdict == ReportGroup \/ CallChiSquare
InitVerdict == InitWith({})
SpecVerdict == InitVerdict /\ [][NextVerdict]_vars

(***************************************************************************)
(* The choice of the two game types in main of deep_analysis.py.  What is  *)
(* typed at the prompt is a sequence of characters.                        *)
(***************************************************************************)
\* str.strip(): the blanks at both ends are dropped
RECURSIVE lstrip(_)
lstrip(text) ==
    IF text # <<>> /\ Head(text) = " " THEN lstrip(Tail(text)) ELSE text

RECURSIVE rstrip(_)
rstrip(text) ==
    IF text # <<>> /\ text[Len(text)] = " "
    THEN rstrip(SubSeq(text, 1, Len(text) - 1))
    ELSE text

strip(text) == rstrip(lstrip(text))

\* The last index of the word of text that starts at index i
RECURSIVE WordEnd(_, _)
WordEnd(text, i) ==
    IF i <= Len(text) /\ text[i] # " " THEN WordEnd(text, i + 1) ELSE i - 1

\* str.split(): the words between runs of blanks
RECURSIVE split(_)
split(text) ==
    LET rest == lstrip(text)
        e    == WordEnd(rest, 1)
    IN  IF rest = <<>> THEN <<>>
        ELSE <<SubSeq(rest, 1, e)>> \o split(SubSeq(rest, e + 1, Len(rest)))

\* int(x) of a word: a sign or none, then digits and nothing else;
\* ValueError otherwise
int_of_str(x) ==
    LET signed == x # <<>> /\ x[1] \in {"-", "+"}
        first  == IF signed THEN 2 ELSE 1
    IN  IF first <= Len(x) /\ RunEnd(x, first) = Len(x)
        THEN [value |-> IF signed /\ x[1] = "-"
                        THEN 0 - int_of_digits(x, first, Len(x))
                        ELSE int_of_digits(x, first, Len(x))]
        ELSE ValueError

\* idx1, idx2 = 0, 1 and what is printed with it
FirstTwo(printed) == [idx1 |-> 0, idx2 |-> 1, printed |-> printed]

\* Slip of the range check: `c < len(game_types)` without `0 <=`
ChooseIndices_NoLowerBound(game_count, user_input) ==
    LET stripped == strip(user_input)
        words    == split(stripped)
        parsed   == [i \in 1..Len(words) |-> int_of_str(words[i])]
    IN  IF game_count = 2
        THEN FirstTwo("Auto-selecting both game types for comparison.")
        ELSE IF stripped = <<>> THEN FirstTwo("")
        ELSE IF \E i \in 1..Len(words) : Raised(parsed[i])
        THEN FirstTwo("Invalid input. Using first two.")
        ELSE LET choices == [i \in 1..Len(words) |-> parsed[i].value - 1]
             IN  IF Len(choices) # 2
                 THEN FirstTwo("Invalid selection. Using first two.")
                 ELSE IF ~ \A i \in 1..2 : choices[i] < game_count
                 THEN FirstTwo("Invalid selection. Using first two.")
                 ELSE [idx1 |-> choices[1], idx2 |-> choices[2], printed |-> ""]

\* The indices main compares, counted from 0: the first two of two game
\* types without a prompt; else those typed as two numbers from 1 to the
\* number of game types; else the first two
ChooseIndices(game_count, user_input) ==
    LET stripped == strip(user_input)
        words    == split(stripped)
        parsed   == [i \in 1..Len(words) |-> int_of_str(words[i])]
    IN  IF game_count = 2
        THEN FirstTwo("Auto-selecting both game types for comparison.")
        ELSE IF stripped = <<>> THEN FirstTwo("")
        ELSE IF \E i \in 1..Len(words) : Raised(parsed[i])
        THEN FirstTwo("Invalid input. Using first two.")
        ELSE LET choices == [i \in 1..Len(words) |-> parsed[i].value - 1]
             IN  IF Len(choices) # 2
                 THEN FirstTwo("Invalid selection. Using first two.")
                 ELSE IF ~ \A i \in 1..2 :
                             0 <= choices[i] /\ choices[i] < game_count
                 THEN FirstTwo("Invalid selection. Using first two.")
                 ELSE [idx1 |-> choices[1], idx2 |-> choices[2], printed |-> ""]

\* The characters typed: blanks, digits, a sign and a letter
InputChars == {" ", "0", "1", "2", "3", "-", "x"}
MaxInput == 5
MaxGameTypes == 3

\* Every text of at most MaxInput characters
UserInputs == UNION {[1..k -> InputChars] : k \in 0..MaxInput}

\* Texts typed at the prompt of a comparison: every pair of the numbers 1
\* to 3, nothing, blanks, and entries that are no selection
TypedCorpus ==
    {<<str_of_int(a)[1], " ", str_of_int(b)[1]>> : a \in 1..3, b \in 1..3}
        \cup {<<>>, <<" ">>, <<"1">>, <<"0", " ", "1">>, <<"1", " ", "4">>,
              <<"-", "1", " ", "2">>, <<"x", " ", "y">>,
              <<"1", " ", "2", " ", "3">>}

\* The prompt of main with game_count game types listed and user_input typed
CallChooseIndices ==
    /\ pc = "start"
    /\ \E game_count \in 2..MaxGameTypes, user_input \in UserInputs :
          /\ call' = [fn |-> "input", game_count |-> game_count,
                      user_input |-> IF game_count = 2 THEN <<>> ELSE user_input]
          /\ result' = ChooseIndices(game_count, user_input)
    /\ pc' = "returned"
    /\ UNCHANGED <<corpus, sessions, grouped, displayed, output_data, disk>>

NextChoose == CallChooseIndices
InitChoose == InitWith({})
SpecChoose == InitChoose /\ [][NextChoose]_vars

(***************************************************************************)
(* deep_analysis.py after analyze_results.py has saved its file.           *)
(***************************************************************************)
\* Slip of main: the check `len(data) < 2` left out, so that a single game
\* type reaches game_types[1]
DeepAnalysis_NoCountCheck ==
    /\ pc = "reported"
    /\ pc' = "compared"
    /\ LET game_types == KeysInOrder(sessions, Len(sessions))
           n == Len(game_types)
       IN  IF output_data = NotSaved
           THEN /\ call' = [fn |-> "main"]
                /\ result' = [printed |-> "Error: scripts/analyze_results.json not found"]
           ELSE IF n < 2
           THEN /\ call' = [fn |-> "main"]
                /\ result' = [exc |-> "IndexError"]
           ELSE \E user_input \in (IF n = 2 THEN {<<>>} ELSE TypedCorpus) :
                    LET chosen == ChooseIndices(n, user_input)
                        name1  == game_types[chosen.idx1 + 1]
                        name2  == game_types[chosen.idx2 + 1]
                    IN  /\ call' = [fn |-> "analyze_board_comparison",
                                    name1 |-> name1, name2 |-> name2,
                                    user_input |-> user_input]
                        /\ result' = analyze_board_comparison(
                                         name1, output_data[name1],
                                         name2, output_data[name2])
    /\ UNCHANGED <<corpus, sessions, grouped, displayed, output_data, disk>>

\* main of deep_analysis.py: without the saved file, or with a single game
\* type in it, a notice and no comparison; with two game types these two;
\* (nothing is asked) and with more the two that ChooseIndices takes from
\* what is typed
DeepAnalysis ==
    /\ pc = "reported"
    /\ pc' = "compared"
    /\ LET game_types == KeysInOrder(sessions, Len(sessions))
           n == Len(game_types)
       IN  IF output_data = NotSaved
           THEN /\ call' = [fn |-> "main"]
                /\ result' = [printed |-> "Error: scripts/analyze_results.json not found"]
           ELSE IF n < 2
           THEN /\ call' = [fn |-> "main"]
                /\ result' = [printed |-> "Warning: Only one game type found"]
           ELSE \E user_input \in (IF n = 2 THEN {<<>>} ELSE TypedCorpus) :
                    LET chosen == ChooseIndices(n, user_input)
                        name1  == game_types[chosen.idx1 + 1]
                        name2  == game_types[chosen.idx2 + 1]
                    IN  /\ call' = [fn |-> "analyze_board_comparison",
                                    name1 |-> name1, name2 |-> name2,
                                    user_input |-> user_input]
                        /\ result' = analyze_board_comparison(
                                         name1, output_data[name1],
                                         name2, output_data[name2])
    /\ UNCHANGED <<corpus, sessions, grouped, displayed, output_data, disk>>

NextCompare == StartLoad \/ Ingest \/ Report \/ DeepAnalysis
InitCompare == InitWith(CompareCorpus)
SpecCompare == InitCompare /\ [][NextCompare]_vars

\* summary_report.py after analyze_results.py has saved its file: without
\* the file an error line, with it the report
SummaryReport ==
    /\ pc = "reported"
    /\ pc' = "summarised"
    /\ call' = [fn |-> "generate_summary_report"]
    /\ result' = IF output_data = NotSaved
                 THEN [printed |-> "Error: analyze_results.json not found"]
                 ELSE generate_summary_report(output_data)
    /\ UNCHANGED <<corpus, sessions, grouped, displayed, output_data, disk>>

NextSummary == StartLoad \/ Ingest \/ Report \/ SummaryReport
InitSummary == InitWith(CompareCorpus)
SpecSummary == InitSummary /\ [][NextSummary]_vars

(***************************************************************************)
(* bump_version.py, run again and again on the Cargo.toml of the project.  *)
(***************************************************************************)
\* The parts of the version line are small enough to be bumped once more
Bumpable(text) ==
    LET v == parse_version(text)
    IN  IF Raised(v) THEN TRUE
        ELSE v.major < MaxPart /\ v.minor < MaxPart /\ v.patch < MaxPart

\* main of bump_version.py: the version line is read and bumped; an invalid
\* line ends the run with 1; a dry run shows the change, otherwise the line
\* is rewritten.  (The git commit of --commit is outside this model.)
BumpVersion ==
    /\ pc \in {"start", "bumped"}
    /\ Bumpable(disk.cargo_toml)
    /\ pc' = "bumped"
    /\ \E bump_type \in {"major", "minor", "patch"}, dry_run \in BOOLEAN :
          LET current == get_current_version(disk.cargo_toml)
              new     == IF Raised(current) THEN current
                         ELSE bump_version(current.value, bump_type)
          IN  /\ call' = [fn |-> "bump_version", bump_type |-> bump_type,
                          dry_run |-> dry_run, current_version |-> disk.cargo_toml]
              /\ IF Raised(new)
                 THEN /\ result' = [code |-> 1, error |-> new.exc]
                      /\ disk' = disk
                 ELSE /\ result' = [code |-> 0, new_version |-> new.value,
                                    updated |-> ~dry_run]
                      /\ disk' = IF dry_run THEN disk
                                 ELSE [disk EXCEPT !.cargo_toml = new.value]
    /\ UNCHANGED <<corpus, sessions, grouped, displayed, output_data>>

NextBump == BumpVersion
InitBump ==
    /\ \E version \in CargoVersions : disk = [cargo_toml |-> version]
    /\ corpus = {}
    /\ pc = "start"
    /\ sessions = <<>>
    /\ grouped = NoGroups
    /\ displayed = Nothing
    /\ output_data = NotSaved
    /\ call = NoCall
    /\ result = Nothing
SpecBump == InitBump /\ [][NextBump]_vars

(***************************************************************************)
(* The feature analyses of scripts/phase1_analyze.py and of                *)
(* analyze_winning_patterns.py.  A move of a kifu is "Normal", "Promote"   *)
(* (a Normal move with promote set) or "Drop"; the winner of a game is     *)
(* "Player1", "Player2" or "null" for a game without one.                  *)
(***************************************************************************)
NoFeatures == [features |-> "none"]
FeatureKeys == {"promotion_rate", "drop_rate", "game_length", "early_aggression"}

\* How many of the moves are of one of the kinds
CountMoves(moves, kinds) == Cardinality({i \in 1..Len(moves) : moves[i] \in kinds})

\* extract_features of both scripts on the moves of a kifu (drop_types, which
\* phase 1 adds and never appends, is left out)
extract_features(kifu) ==
    LET moves == kifu.moves
        early_moves == SubSeq(moves, 1, IF Len(moves) < 10 THEN Len(moves) ELSE 10)
        n == float_of_int(Len(moves))
    IN  IF moves = <<>> THEN NoFeatures
        ELSE [promotion_rate |->
                  float_truediv(float_of_int(CountMoves(moves, {"Promote"})), n),
              drop_rate |->
                  float_truediv(float_of_int(CountMoves(moves, {"Drop"})), n),
              game_length |-> Len(moves),
              early_aggression |->
                  float_truediv(
                      float_of_int(CountMoves(early_moves, {"Normal", "Promote"})),
                      float_of_int(Len(early_moves)))]

\* defaultdict(list) before anything is appended
EmptyLists == [key \in FeatureKeys |-> <<>>]

\* target[key].append(value) for every key of features
AppendFeatures(target, features) ==
    [key \in FeatureKeys |-> Append(target[key], features[key])]

\* The loop of analyze_features over the first i pairs:
\* target = p1_features if winner == 'Player1' else p2_features
RECURSIVE Phase1Separate(_, _, _)
Phase1Separate(games, kifus, i) ==
    IF i = 0 THEN [p1_features |-> EmptyLists, p2_features |-> EmptyLists]
    ELSE LET sofar    == Phase1Separate(games, kifus, i - 1)
             winner   == games[i].winner
             features == extract_features(kifus[i])
         IN  IF features = NoFeatures THEN sofar
             ELSE IF winner = "Player1"
             THEN [sofar EXCEPT !.p1_features = AppendFeatures(@, features)]
             ELSE [sofar EXCEPT !.p2_features = AppendFeatures(@, features)]

\* analyze_features up to the separation: nothing without kifus; zip stops
\* at the shorter of results['games'] and kifus
analyze_features(results, kifus) ==
    LET games == results.games
    IN  IF kifus = <<>> THEN Nothing
        ELSE Phase1Separate(games, kifus,
                 IF Len(games) < Len(kifus) THEN Len(games) ELSE Len(kifus))

\* The loop of analyze_winning_patterns over the first i pairs: Player1,
\* Player2, or else the draws
RECURSIVE PatternsSeparate(_, _, _)
PatternsSeparate(games, kifus, i) ==
    IF i = 0
    THEN [p1_features |-> EmptyLists, p2_features |-> EmptyLists,
          draw_features |-> EmptyLists]
    ELSE LET sofar    == PatternsSeparate(games, kifus, i - 1)
             winner   == games[i].winner
             features == extract_features(kifus[i])
         IN  IF features = NoFeatures THEN sofar
             ELSE IF winner = "Player1"
             THEN [sofar EXCEPT !.p1_features = AppendFeatures(@, features)]
             ELSE IF winner = "Player2"
             THEN [sofar EXCEPT !.p2_features = AppendFeatures(@, features)]
             ELSE [sofar EXCEPT !.draw_features = AppendFeatures(@, features)]

\* analyze_winning_patterns up to the separation
analyze_winning_patterns(results, kifus) ==
    LET games == results.games
    IN  IF kifus = <<>> THEN Nothing
        ELSE PatternsSeparate(games, kifus,
                 IF Len(games) < Len(kifus) THEN Len(games) ELSE Len(kifus))

\* The games of a self-play run: up to MaxGames of them, each with its
\* winner and the moves of its kifu
MaxGames == 3
KifuMoves == {<<>>, <<"Normal">>, <<"Normal", "Drop">>,
              <<"Normal", "Promote", "Drop">>}
SelfPlayRuns ==
    UNION {[1..k -> [winner : {"Player1", "Player2", "null"},
                     moves : KifuMoves]] : k \in 0..MaxGames}

\* python scripts/phase1_analyze.py on the files of the run
Phase1Analyze ==
    /\ pc = "start"
    /\ call' = [fn |-> "analyze_features"]
    /\ result' = analyze_features(disk.selfplay_results, disk.selfplay_kifu)
    /\ pc' = "returned"
    /\ UNCHANGED <<corpus, sessions, grouped, displayed, output_data, disk>>

\* python analyze_winning_patterns.py on the files of the run
WinningPatterns ==
    /\ pc = "start"
    /\ call' = [fn |-> "analyze_winning_patterns"]
    /\ result' = analyze_winning_patterns(disk.selfplay_results, disk.selfplay_kifu)
    /\ pc' = "returned"
    /\ UNCHANGED <<corpus, sessions, grouped, displayed, output_data, disk>>

NextFeatures == Phase1Analyze \/ WinningPatterns
InitFeatures ==
    /\ \E run \in SelfPlayRuns :
          disk = [selfplay_results |->
                      [games |-> [i \in 1..Len(run) |-> [winner |-> run[i].winner]]],
                  selfplay_kifu |->
                      [i \in 1..Len(run) |-> [moves |-> run[i].moves]]]
    /\ corpus = {}
    /\ pc = "start"
    /\ sessions = <<>>
    /\ grouped = NoGroups
    /\ displayed = Nothing
    /\ output_data = NotSaved
    /\ call = NoCall
    /\ result = Nothing
SpecFeatures == InitFeatures /\ [][NextFeatures]_vars

(***************************************************************************)
(* scripts/auto_update_config.py.  The disk holds ai_config.json, of which *)
(* the model keeps evaluation.hand_piece_bonus_multiplier, and the latest  *)
(* backup of it; the drop-rate difference of analysis_results.json is new  *)
(* at every run.                                                           *)
(***************************************************************************)
\* The multiplier update_ai_config stores for a drop-rate difference above
\* 0.10: min(old_value + 0.1, 1.5)
NewMultiplier(old_value) ==
    LET raised == float_add(old_value, FloatLit(1, 10))
        cap    == FloatLit(3, 2)
    IN  IF float_lt(cap, raised) THEN cap ELSE raised

\* drop_diff > 0.10
SignificantDropDiff(drop_diff) == float_lt(FloatLit(10, 100), drop_diff)

\* The multipliers ai_config.json may start with, in hundredths
StartingMultipliers == {FloatLit(c, 100) : c \in {0, 50, 75, 100, 120, 145, 150, 160, 200}}

\* The drop-rate differences of an analysis, in hundredths
DropDiffs == {FloatLit(c, 100) : c \in {0, 5, 10, 11, 25}}

\* update_ai_config: an error line without ai_config.json; else the config
\* is backed up, and rewritten with the new multiplier if the drop-rate
\* difference is above 0.10
UpdateAiConfig ==
    /\ pc \in {"start", "updated"}
    /\ pc' = "updated"
    /\ \E drop_diff \in DropDiffs :
          /\ call' = [fn |-> "update_ai_config", drop_diff |-> drop_diff]
          /\ IF disk = NoFiles
             THEN /\ result' = [printed |-> "Error: ai_config.json not found"]
                  /\ disk' = disk
             ELSE LET old_value == disk.ai_config.hand_piece_bonus_multiplier
                      new_value == NewMultiplier(old_value)
                  IN  IF SignificantDropDiff(drop_diff)
                      THEN /\ result' = [printed |-> "AI CONFIG UPDATED",
                                         old_value |-> old_value,
                                         new_value |-> new_value]
                           /\ disk' = [ai_config |->
                                           [hand_piece_bonus_multiplier |-> new_value],
                                       backup |-> disk.ai_config]
                      ELSE /\ result' = [printed |->
                                  "No significant changes recommended based on current analysis."]
                           /\ disk' = [disk EXCEPT !.backup = disk.ai_config]
    /\ UNCHANGED <<corpus, sessions, grouped, displayed, output_data>>

NextUpdate == UpdateAiConfig
InitUpdate ==
    /\ \/ disk = NoFiles
       \/ \E multiplier \in StartingMultipliers :
             disk = [ai_config |-> [hand_piece_bonus_multiplier |-> multiplier],
                     backup |-> NoFiles]
    /\ corpus = {}
    /\ pc = "start"
    /\ sessions = <<>>
    /\ grouped = NoGroups
    /\ displayed = Nothing
    /\ output_data = NotSaved
    /\ call = NoCall
    /\ result = Nothing
SpecUpdate == InitUpdate /\ [][NextUpdate]_vars


(***************************************************************************)
(* Properties.  `sessions` is the record of what was read, in the order it *)
(* was read; the properties compare the program's results with it.         *)
(***************************************************************************)
Loaded == pc \in {"loading", "reported"}

\* The sum of an integer field over the first i sessions read whose
\* configuration key is `key`
RECURSIVE SumCounts(_, _, _)
SumCounts(field, key, i) ==
    IF i = 0 THEN 0
    ELSE SumCounts(field, key, i - 1)
         + (IF game_type(sessions[i].data) = key
            THEN sessions[i].data[field] ELSE 0)

\* The number of times the file `name` is listed in a group's files
TimesListed(group, name) ==
    Cardinality({j \in 1..Len(group.files) : group.files[j] = name})

\* C1: after any sequence of ingested sessions, the total_games, p1_wins,
\* p2_wins and draws of every group are the sums of those fields over
\* exactly the ingested sessions whose configuration key is the group's key,
\* and every ingested session is listed once, in the files of one group, the
\* group of its key.
C1_GroupSums ==
    Loaded =>
        /\ \A k \in DOMAIN grouped :
              \A field \in {"total_games", "p1_wins", "p2_wins", "draws"} :
                  grouped[k][field] = SumCounts(field, k, Len(sessions))
        /\ \A i \in 1..Len(sessions) :
              /\ Cardinality({k \in DOMAIN grouped :
                                 TimesListed(grouped[k], sessions[i].name) > 0}) = 1
              /\ \A k \in DOMAIN grouped :
                    TimesListed(grouped[k], sessions[i].name)
                        = (IF k = game_type(sessions[i].data) THEN 1 ELSE 0)

\* The sessions of 20, 30 and 10 games of one configuration were ingested
\* and their group holds total 60, 30 wins each and no draw
C1_Witness ==
    /\ Loaded
    /\ \E k \in DOMAIN grouped :
          /\ Len(grouped[k].files) = 3
          /\ {<<sessions[i].data.total_games, sessions[i].data.p1_wins,
                sessions[i].data.p2_wins, sessions[i].data.draws>> : i \in 1..3}
                 = {<<20, 12, 8, 0>>, <<30, 15, 15, 0>>, <<10, 3, 7, 0>>}
          /\ \A i \in 1..3 : game_type(sessions[i].data) = k
          /\ grouped[k].total_games = 60
          /\ grouped[k].p1_wins = 30
          /\ grouped[k].p2_wins = 30
          /\ grouped[k].draws = 0

\* p1_wins + p2_wins + draws == total_games
SumsUp(r) == r.p1_wins + r.p2_wins + r.draws = r.total_games

\* C2: if every ingested session satisfies p1_wins + p2_wins + draws ==
\* total_games, then after every ingestion step every group satisfies it.
C2_SumInvariant ==
    (Loaded /\ \A i \in 1..Len(sessions) : SumsUp(sessions[i].data))
        => \A k \in DOMAIN grouped : SumsUp(grouped[k])

\* Two sessions that add up, one of them with draws, merged into one group
C2_Witness ==
    /\ Loaded
    /\ \A i \in 1..Len(sessions) : SumsUp(sessions[i].data)
    /\ \E k \in DOMAIN grouped :
          /\ Len(grouped[k].files) >= 2
          /\ grouped[k].draws > 0
          /\ grouped[k].total_games = 17
          /\ SumsUp(grouped[k])

\* The sum of avg * total_games over the first i sessions read whose
\* configuration key is `key`, added up in the order read
RECURSIVE WeightedSum(_, _, _)
WeightedSum(field, key, i) ==
    IF i = 0 THEN FloatZero
    ELSE IF game_type(sessions[i].data) = key
    THEN float_add(WeightedSum(field, key, i - 1),
                   float_mul(sessions[i].data[field],
                             float_of_int(sessions[i].data.total_games)))
    ELSE WeightedSum(field, key, i - 1)

\* (sum of avg_i * total_games_i) / (sum of total_games_i)
WeightedAverage(field, key) ==
    float_truediv(WeightedSum(field, key, Len(sessions)),
                  float_of_int(SumCounts("total_games", key, Len(sessions))))

\* The sessions of key are one of 10 games of 20 moves on average and one
\* of 90 games of 100 moves on average
TenAndNinety(key) ==
    LET own == {i \in 1..Len(sessions) : game_type(sessions[i].data) = key}
    IN  /\ Cardinality(own) = 2
        /\ {<<sessions[i].data.total_games, sessions[i].data.avg_moves>> :
               i \in own}
              = {<<10, float_of_int(20)>>, <<90, float_of_int(100)>>}

\* C3: for every group with total_games > 0, the average move count that is
\* displayed and saved is (sum of avg_moves_i * total_games_i) / (sum of
\* total_games_i) over the group's sessions, and the average time is the
\* same weighted average of avg_time_ms_i (reported in seconds); sessions of
\* 10 games of 20 moves and 90 games of 100 moves give 92, not 60.
C3_WeightedAverage ==
    pc = "reported" =>
        \A k \in DOMAIN grouped :
            grouped[k].total_games > 0 =>
                /\ displayed[k].avg_moves = WeightedAverage("avg_moves", k)
                /\ output_data[k].avg_moves = WeightedAverage("avg_moves", k)
                /\ displayed[k].avg_time_s
                       = float_truediv(WeightedAverage("avg_time_ms", k),
                                       float_of_int(1000))
                /\ output_data[k].avg_time_s = displayed[k].avg_time_s
                /\ TenAndNinety(k) =>
                       /\ displayed[k].avg_moves = float_of_int(92)
                       /\ displayed[k].avg_moves # float_of_int(60)

\* The report of the sessions of 10 and 90 games shows 92 moves on average
C3_Witness ==
    /\ pc = "reported"
    /\ \E k \in DOMAIN grouped :
          /\ TenAndNinety(k)
          /\ displayed[k].avg_moves = float_of_int(92)
          /\ output_data[k].avg_moves = float_of_int(92)

\* A record that is well formed: counts that are not negative and add up
WellFormed(r) ==
    /\ r.total_games >= 0 /\ r.p1_wins >= 0 /\ r.p2_wins >= 0 /\ r.draws >= 0
    /\ SumsUp(r)

\* The sum of an integer field over the well-formed sessions of key
RECURSIVE SumWellFormed(_, _, _)
SumWellFormed(field, key, i) ==
    IF i = 0 THEN 0
    ELSE SumWellFormed(field, key, i - 1)
         + (IF game_type(sessions[i].data) = key /\ WellFormed(sessions[i].data)
            THEN sessions[i].data[field] ELSE 0)

\* C4: a malformed record (counts that do not add up to total_games, or a
\* negative count) is skipped: it changes no group's accumulated fields and
\* is listed in no group, while every other record is aggregated.
C4_MalformedSkipped ==
    Loaded =>
        /\ \A k \in DOMAIN grouped :
              \A field \in {"total_games", "p1_wins", "p2_wins", "draws"} :
                  grouped[k][field] = SumWellFormed(field, k, Len(sessions))
        /\ \A i \in 1..Len(sessions) :
              \A k \in DOMAIN grouped :
                  TimesListed(grouped[k], sessions[i].name)
                      = (IF k = game_type(sessions[i].data)
                            /\ WellFormed(sessions[i].data)
                         THEN 1 ELSE 0)

\* The cumulative numeric fields of a group
Cumulative(group) ==
    <<group.total_games, group.p1_wins, group.p2_wins, group.draws,
      group.total_moves, group.total_time_ms>>

\* The rates and weighted averages of a group, as they are saved
Derived(group) ==
    LET o == OutputRecord(group)
    IN  <<o.p1_win_rate, o.p2_win_rate, o.draw_rate, o.avg_moves, o.avg_time_s>>

\* The group of key k, one never seen being the empty group
GroupOrNew(g, k) == IF k \in DOMAIN g THEN g[k] ELSE NewGroup

\* The step reads one more file, and it holds a well-formed session of no game
ReadsEmptySession ==
    /\ pc = "loading"
    /\ Len(sessions') = Len(sessions) + 1
    /\ sessions'[Len(sessions')].data.total_games = 0
    /\ WellFormed(sessions'[Len(sessions')].data)

\* C5: ingesting a record with total_games == 0 leaves the cumulative
\* numeric fields (total_games, p1_wins, p2_wins, draws, total_moves,
\* total_time_ms) of its own group and of every other group as they were,
\* and with them every group's rates and weighted averages.
C5_EmptySessionNoOp ==
    [][ReadsEmptySession =>
           \A k \in DOMAIN grouped' :
               /\ Cumulative(grouped'[k]) = Cumulative(GroupOrNew(grouped, k))
               /\ Derived(grouped'[k]) = Derived(GroupOrNew(grouped, k))]_vars

\* A session of no game that carries averages was read into a group that
\* already held games, and the group's cumulative fields are those games'
C5_Witness ==
    /\ Loaded
    /\ Len(sessions) = 2
    /\ sessions[1].data.total_games = 20
    /\ sessions[2].data.total_games = 0
    /\ sessions[2].data.avg_moves # FloatZero
    /\ game_type(sessions[1].data) = game_type(sessions[2].data)
    /\ LET group == grouped[game_type(sessions[2].data)]
       IN  /\ Len(group.files) = 2
           /\ Cumulative(group)
                  = <<20, 12, 8, 0,
                      float_mul(sessions[1].data.avg_moves, float_of_int(20)),
                      float_mul(sessions[1].data.avg_time_ms, float_of_int(20))>>

\* The session the single-file commands were given
TheFile == sessions[1].data

\* The rates of a saved record are all 0
RatesZero(o) ==
    /\ o.p1_win_rate = FloatZero /\ o.p2_win_rate = FloatZero
    /\ o.draw_rate = FloatZero

\* C6: for a record or group with total_games == 0 no rate computation
\* raises: the aggregate display and the single-file analysis report no
\* rate, the saved record reports rates of 0, and the basic statistics
\* complete without a division by zero.
C6_NoGamesNoError ==
    /\ pc = "reported" =>
          \A k \in DOMAIN grouped :
              grouped[k].total_games = 0 =>
                  /\ displayed[k].printed = "No games played"
                  /\ RatesZero(output_data[k])
    /\ (pc = "single" /\ TheFile.total_games = 0) =>
          displayed.printed = "No games played"
    /\ (pc = "basic" /\ TheFile.total_games = 0) =>
          displayed.printed # "ZeroDivisionError"

\* The configuration of a session: board layout, strength of player 1,
\* strength of player 2
ConfigKey(data) == <<data.board_setup, data.ai1_strength, data.ai2_strength>>

\* The sessions read as files i and j were accumulated into the same group
SameGroup(i, j) ==
    \E k \in DOMAIN grouped :
        /\ TimesListed(grouped[k], sessions[i].name) > 0
        /\ TimesListed(grouped[k], sessions[j].name) > 0

\* C7: two records are accumulated into the same group if and only if they
\* agree on board layout, player-1 strength and player-2 strength; records
\* of (B, X vs Y) and (B, Y vs X) with X # Y go to different groups.
C7_GroupedByConfiguration ==
    Loaded =>
        \A i, j \in 1..Len(sessions) :
            /\ SameGroup(i, j)
                   <=> ConfigKey(sessions[i].data) = ConfigKey(sessions[j].data)
            /\ ( /\ sessions[i].data.board_setup = sessions[j].data.board_setup
                 /\ sessions[i].data.ai1_strength = sessions[j].data.ai2_strength
                 /\ sessions[i].data.ai2_strength = sessions[j].data.ai1_strength
                 /\ sessions[i].data.ai1_strength # sessions[i].data.ai2_strength )
                   => ~SameGroup(i, j)

\* The additive fields of every group
AdditiveFields(g) == [k \in DOMAIN g |-> Cumulative(g[k])]

\* The orders the files read could have been read in
Orders == {f \in [1..Len(sessions) -> 1..Len(sessions)] :
              \A i, j \in 1..Len(sessions) : f[i] = f[j] => i = j}

\* Two aggregations merged: per key, the sums of the additive fields
MergedFields(a, b) ==
    [k \in DOMAIN a \cup DOMAIN b |->
        LET x == GroupOrNew(a, k)
            y == GroupOrNew(b, k)
        IN  <<x.total_games + y.total_games, x.p1_wins + y.p1_wins,
              x.p2_wins + y.p2_wins, x.draws + y.draws,
              float_add(x.total_moves, y.total_moves),
              float_add(x.total_time_ms, y.total_time_ms)>>]

\* C8: the additive fields of every group (total_games, p1_wins, p2_wins,
\* draws, total_moves, total_time_ms) do not depend on the order the records
\* are ingested in, and aggregating two batches apart and summing them per
\* key gives what aggregating all of them in one pass gives.
C8_OrderIndependent ==
    Loaded =>
        /\ \A f \in Orders :
              AdditiveFields(load_all_results(NoGroups,
                  [i \in 1..Len(sessions) |-> sessions[f[i]]], 1))
                  = AdditiveFields(grouped)
        /\ \A n \in 0..Len(sessions) :
              MergedFields(
                  load_all_results(NoGroups, SubSeq(sessions, 1, n), 1),
                  load_all_results(NoGroups,
                                   SubSeq(sessions, n + 1, Len(sessions)), 1))
                  = AdditiveFields(grouped)

CalledInterval == call.fn = "calculate_confidence_interval"

\* C9: the interval for trials == 0 is (0, 0), whatever the successes and
\* the confidence, and nothing is raised.
C9_NoTrials ==
    (CalledInterval /\ call.total = 0)
        => result = [low |-> FloatZero, high |-> FloatZero]

\* The interval of 3 successes in 0 trials at 99% was asked for and is (0, 0)
C9_Witness ==
    /\ CalledInterval
    /\ call.total = 0
    /\ call.wins = 3
    /\ call.confidence = FloatLit(99, 100)
    /\ result = [low |-> FloatZero, high |-> FloatZero]

\* C10: for 0 <= successes <= trials and trials > 0 the interval is a pair
\* of percentages with 0 <= low <= high <= 100.
C10_WithinPercent ==
    (CalledInterval /\ call.total > 0 /\ 0 <= call.wins /\ call.wins <= call.total)
        => /\ ~Raised(result)
           /\ float_le(float_of_int(0), result.low)
           /\ float_le(result.low, result.high)
           /\ float_le(result.high, float_of_int(100))

\* The intervals of 0 and of 5 successes in 5 trials at 95%, where the
\* formula leaves [0, 1]: the bound at the edge is the edge itself
C10_Witness ==
    /\ CalledInterval
    /\ call.total = 5
    /\ call.confidence = FloatLit(95, 100)
    /\ \/ call.wins = 0 /\ result.low = FloatZero
          /\ float_lt(result.low, result.high)
       \/ call.wins = 5 /\ result.high = float_of_int(100)
          /\ float_lt(result.low, result.high)

\* The width high - low of an interval
Width(interval) == Once(interval, LAMBDA r : float_sub(r.high, r.low))

\* The interval of the same proportion from c times the trials
Scaled(c) ==
    calculate_confidence_interval(c * call.wins, c * call.total, call.confidence)

\* C11: with the proportion successes / trials held fixed, the interval of
\* (c * k, c * n), c > 1, is strictly narrower than the interval of (k, n),
\* for every n > 0 and 0 <= k <= n.
C11_NarrowerWithMoreTrials ==
    (CalledInterval /\ call.total > 0 /\ 0 <= call.wins /\ call.wins <= call.total)
        => \A c \in 2..(MaxTrials \div call.total) :
               float_lt(Width(Scaled(c)), Width(result))

\* 3 of 6 at 95% was asked for, and 6 of 12 and 12 of 24 are narrower; so
\* was 0 of 6, whose lower bound is 0 at every number of trials
C11_Witness ==
    /\ CalledInterval
    /\ call.total = 6
    /\ call.confidence = FloatLit(95, 100)
    /\ call.wins \in {0, 3}
    /\ float_lt(Width(Scaled(4)), Width(Scaled(2)))
    /\ float_lt(Width(Scaled(2)), Width(result))

CalledChiSquare == call.fn = "chi_square_test"
Reported == call.fn = "display_game_type_statistics"

\* The counts of the call add up to no game at all
NoGames ==
    \/ CalledChiSquare /\ call.p1_wins + call.p2_wins + call.draws = 0
    \/ Reported /\ call.data.total_games = 0

NoDecisiveGames ==
    /\ CalledChiSquare
    /\ call.p1_wins = 0 /\ call.p2_wins = 0 /\ call.draws > 0

OrderedLabels ==
    {"Not significant (p > 0.05)", "Significant (p < 0.05)",
     "Very significant (p < 0.01)", "Extremely significant (p < 0.001)"}

\* C13: with games but no decisive game the chi-square test raises nothing
\* and returns the statistic 0 with a "not applicable" significance, never
\* one of the four ordered labels.
C13_NoDecisiveGames ==
    NoDecisiveGames =>
        /\ ~Raised(result)
        /\ result.statistic = FloatZero
        /\ result.significance = "N/A (no decisive games)"
        /\ result.significance \notin OrderedLabels

\* Two draws and no win: (0, "N/A (no decisive games)")
C13_Witness ==
    /\ NoDecisiveGames
    /\ call.draws = 2
    /\ result = [statistic |-> FloatZero,
                 significance |-> "N/A (no decisive games)"]

\* The decisive games of the test, and the difference of the two seats
Decisive == call.p1_wins + call.p2_wins
Lead == call.p1_wins - call.p2_wins

\* C14: with a decisive game the statistic is (p1 - expected)^2 / expected
\* + (p2 - expected)^2 / expected for expected = (p1 + p2) / 2, which is
\* (p1 - p2)^2 / (p1 + p2) whatever the draws; 30, 20, 0 gives 2.0 and
\* not-significant.
C14_DecisiveGamesOnly ==
    (CalledChiSquare /\ Decisive > 0) =>
        /\ ~Raised(result)
        /\ result.statistic =
               float_truediv(float_of_int(Lead * Lead), float_of_int(Decisive))
        /\ (call.p1_wins = 30 /\ call.p2_wins = 20) =>
               /\ result.statistic = float_of_int(2)
               /\ result.significance = "Not significant (p > 0.05)"

\* 30 wins, 20 wins and 2 draws: the statistic is 2.0 as without the draws
C14_Witness ==
    /\ CalledChiSquare
    /\ call.p1_wins = 30 /\ call.p2_wins = 20 /\ call.draws = 2
    /\ result = [statistic |-> float_of_int(2),
                 significance |-> "Not significant (p > 0.05)"]

\* The place of a significance label in the order of the four
Rank(label) ==
    CASE label = "Not significant (p > 0.05)"        -> 0
      [] label = "Significant (p < 0.05)"            -> 1
      [] label = "Very significant (p < 0.01)"       -> 2
      [] label = "Extremely significant (p < 0.001)" -> 3
      [] OTHER                                       -> -1

\* The critical values, in thousandths
CriticalValues == {3841, 6635, 10828}

\* The critical values that x = Lead^2 / Decisive has reached
Reached == {t \in CriticalValues : t * Decisive <= 1000 * Lead * Lead}

\* C15: the label is not-significant iff x < 3.841, significant iff 3.841 <=
\* x < 6.635, very-significant iff 6.635 <= x < 10.828 and
\* extremely-significant iff x >= 10.828: exactly one of the four, the one
\* whose rank is the number of critical values x has reached.
C15_SignificanceLabel ==
    (CalledChiSquare /\ Decisive > 0) =>
        /\ result.significance \in OrderedLabels
        /\ Rank(result.significance) = Cardinality(Reached)
        /\ Rank(result.significance) =
               Cardinality({t \in CriticalValues :
                   float_le(FloatLit(t, 1000), result.statistic)})

\* 8 wins to 2 give 3.6, not significant; 4 to 0 give 4.0, significant; 7 to
\* 0 give 7.0, very significant; 11 to 0 give 11.0, extremely significant
C15_Witness ==
    /\ CalledChiSquare
    /\ call.draws = 1
    /\ \/ call.p1_wins = 8 /\ call.p2_wins = 2 /\ Rank(result.significance) = 0
       \/ call.p1_wins = 4 /\ call.p2_wins = 0 /\ Rank(result.significance) = 1
       \/ call.p1_wins = 0 /\ call.p2_wins = 7 /\ Rank(result.significance) = 2
       \/ call.p1_wins = 11 /\ call.p2_wins = 0 /\ Rank(result.significance) = 3

\* What the display of the reported group showed
Shown == result.shown

\* The group was displayed with its statistics
ShownStatistics == Reported /\ call.data.total_games > 0

\* low <= x < high, on floats
Within(x, low, high) ==
    /\ float_le(float_of_int(low), x)
    /\ float_lt(x, float_of_int(high))

\* C16: for total > 0 the rate difference is |p1_rate - p2_rate| and the
\* balance label is excellent iff it is below 5, good iff 5 <= d < 10,
\* slight-imbalance iff 10 <= d < 20, significant-imbalance iff d >= 20; a
\* difference of exactly 5 is good.
C16_BalanceLabel ==
    ShownStatistics =>
        /\ Shown.win_diff \in {float_sub(Shown.p1_rate, Shown.p2_rate),
                               float_sub(Shown.p2_rate, Shown.p1_rate)}
        /\ FloatSign(Shown.win_diff) >= 0
        /\ Shown.p1_rate = RateOrZero(call.data.p1_wins, call.data.total_games)
        /\ Shown.p2_rate = RateOrZero(call.data.p2_wins, call.data.total_games)
        /\ Shown.status = "Excellent balance"
               <=> float_lt(Shown.win_diff, float_of_int(5))
        /\ Shown.status = "Good balance" <=> Within(Shown.win_diff, 5, 10)
        /\ Shown.status = "Slight imbalance" <=> Within(Shown.win_diff, 10, 20)
        /\ Shown.status = "Significant imbalance"
               <=> float_le(float_of_int(20), Shown.win_diff)
        /\ Shown.win_diff = float_of_int(5) => Shown.status = "Good balance"

\* 21 wins to 19 in 40 games: 52.5% and 47.5%, a difference of exactly 5.0,
\* reported as a good balance
C16_Witness ==
    /\ ShownStatistics
    /\ call.data.p1_wins = 21 /\ call.data.p2_wins = 19 /\ call.data.draws = 0
    /\ Shown.win_diff = float_of_int(5)
    /\ Shown.status = "Good balance"

Compared == pc = "compared" /\ call.fn = "analyze_board_comparison"

\* The saved records of the two compared groups
Group1 == output_data[call.name1]
Group2 == output_data[call.name2]

\* The seat a group favors by its rates
FavoredSeat(data) ==
    IF float_lt(data.p2_win_rate, data.p1_win_rate) THEN "player1"
    ELSE IF float_lt(data.p1_win_rate, data.p2_win_rate) THEN "player2"
    ELSE "balanced"

\* The seat a printed "favors" line names, if it names one
NamedSeat(winner) ==
    CASE winner = "Player 1" -> "player1"
      [] winner = "Player 2" -> "player2"
      [] OTHER               -> "balanced"

\* C18: in a comparison the favored seat of each group is player1 if p1_rate
\* > p2_rate, player2 if p2_rate > p1_rate and balanced if the rates are
\* equal; a group with equal rates is never reported as favoring a player.
C18_FavoredSeat ==
    Compared =>
        /\ NamedSeat(result.winner1) = FavoredSeat(Group1)
        /\ NamedSeat(result.winner2) = FavoredSeat(Group2)

\* C19: opposite bias is reported iff both groups favor a seat and the two
\* seats differ; never when either group has p1_rate == p2_rate.
C19_OppositeBias ==
    Compared =>
        (result.opposite <=>
            /\ FavoredSeat(Group1) # "balanced"
            /\ FavoredSeat(Group2) # "balanced"
            /\ FavoredSeat(Group1) # FavoredSeat(Group2))

\* The place of a game type key in lexical order
LexicalRank(key) ==
    CASE key = "ChessOnly (Light vs Light)" -> 1
      [] key = "Fair (Light vs Light)"      -> 2
      [] key = "ShogiOnly (Light vs Light)" -> 3
      [] OTHER                              -> 0

\* Entry a of a ranking may stand before entry b
RankedBefore(a, b) ==
    \/ float_lt(b.avg_moves, a.avg_moves)
    \/ a.avg_moves = b.avg_moves /\ LexicalRank(a.name) < LexicalRank(b.name)

\* C20: the complexity ranking lists every compared group key exactly once,
\* by avg_moves descending and, for equal avg_moves, in the lexical order of
\* the keys, so that it does not depend on the order the groups are given in.
C20_ComplexityRanking ==
    Compared =>
        LET ranking == result.complexity
        IN  /\ \A k \in {call.name1, call.name2} :
                   Cardinality({i \in 1..Len(ranking) : ranking[i].name = k}) = 1
            /\ \A i, j \in 1..Len(ranking) :
                   i < j => RankedBefore(ranking[i], ranking[j])

\* The configurations the saved file offers to deep_analysis.py
Configurations == DOMAIN output_data

\* main of deep_analysis.py has ended
DeepAnalysisDone == pc = "compared"

\* The notices main ends with when it does not compare
Notices ==
    {"Error: scripts/analyze_results.json not found",
     "Warning: Only one game type found"}

\* C21: with fewer than two configurations no comparison is produced and the
\* run ends normally with a notice; a comparison is produced only with at
\* least two configurations.
C21_NeedsTwoConfigurations ==
    DeepAnalysisDone =>
        /\ ~Raised(result)
        /\ Cardinality(Configurations) < 2 =>
               /\ call.fn # "analyze_board_comparison"
               /\ result.printed \in Notices
        /\ result.printed = "comparison" => Cardinality(Configurations) >= 2

\* Three files of one game type were saved and main ended with the warning
\* that there is only one
C21_Witness ==
    /\ DeepAnalysisDone
    /\ Len(sessions) = 3
    /\ Cardinality(Configurations) = 1
    /\ result.printed = "Warning: Only one game type found"

\* The summary report was printed
Summarised == pc = "summarised" /\ ~Raised(result) /\ result.printed = "summary"

\* The saved record of ShogiOnly, and its chi-square test
ShogiData == output_data["ShogiOnly (Light vs Light)"]
ShogiTest ==
    chi_square_test(ShogiData.p1_wins, ShogiData.p2_wins, ShogiData.draws)

\* The statistic x reads as `text` with two decimals: 9.09 is 9.085 <= x <
\* 9.095
ReadsAs(x, text) ==
    text = "9.09" /\ float_le(FloatLit(9085, 1000), x)
                 /\ float_lt(x, FloatLit(9095, 1000))

\* The label of chi_square_test that a reported significance stands for
StandsFor(significance) ==
    CASE significance = "p < 0.05"  -> "Significant (p < 0.05)"
      [] significance = "p < 0.01"  -> "Very significant (p < 0.01)"
      [] significance = "p < 0.001" -> "Extremely significant (p < 0.001)"
      [] OTHER                      -> "Not significant (p > 0.05)"

\* C22: every label and statistic reported for a configuration is computed
\* from its counts through the fixed thresholds, never hand-assigned: the
\* significance and the chi-square statistic the summary states for
\* ShogiOnly are those of the chi-square test of its counts, and the seat
\* it names as favored is the one with the higher rate.
C22_LabelsComputed ==
    Summarised =>
        /\ ~Raised(ShogiTest)
        /\ ShogiTest.significance = StandsFor(result.significance)
        /\ ReadsAs(ShogiTest.statistic, result.chi_square)
        /\ result.shogi_favors = Winner(ShogiData)

\* (major, minor, patch) order: version a is strictly below version b
VersionBelow(a, b) ==
    \/ a.major < b.major
    \/ a.major = b.major /\ a.minor < b.minor
    \/ a.major = b.major /\ a.minor = b.minor /\ a.patch < b.patch

\* What a bump of the given type makes of version v
Bumped(v, bump_type) ==
    CASE bump_type = "patch" ->
             [major |-> v.major, minor |-> v.minor, patch |-> v.patch + 1]
      [] bump_type = "minor" ->
             [major |-> v.major, minor |-> v.minor + 1, patch |-> 0]
      [] bump_type = "major" ->
             [major |-> v.major + 1, minor |-> 0, patch |-> 0]

\* The version texts of the examples
V031 == <<"0", ".", "3", ".", "1">>
V032 == <<"0", ".", "3", ".", "2">>
V040 == <<"0", ".", "4", ".", "0">>
V100 == <<"1", ".", "0", ".", "0">>

\* C23: a bump of major.minor.patch gives major.minor.(patch+1) for 'patch',
\* major.(minor+1).0 for 'minor' and (major+1).0.0 for 'major'; 0.3.1 becomes
\* 0.3.2, 0.4.0 and 1.0.0; and every bump that rewrites the version line
\* leaves a version strictly greater in (major, minor, patch) order.
C23_BumpIncreases ==
    [][(pc' = "bumped" /\ result'.code = 0) =>
          /\ parse_version(result'.new_version)
                 = Bumped(parse_version(disk.cargo_toml), call'.bump_type)
          /\ disk.cargo_toml = V031 =>
                 result'.new_version =
                     CASE call'.bump_type = "patch" -> V032
                       [] call'.bump_type = "minor" -> V040
                       [] call'.bump_type = "major" -> V100
          /\ result'.updated =>
                 /\ disk'.cargo_toml = result'.new_version
                 /\ VersionBelow(parse_version(disk.cargo_toml),
                                 parse_version(disk'.cargo_toml))
          /\ ~result'.updated => disk' = disk]_vars

\* The version line 0.9.9 was bumped to 0.9.10 and then to 0.10.0
C23_Witness ==
    /\ pc = "bumped"
    /\ call.bump_type = "minor"
    /\ call.current_version = <<"0", ".", "9", ".", "1", "0">>
    /\ result.updated
    /\ disk.cargo_toml = <<"0", ".", "1", "0", ".", "0">>

\* The test of the same counts with the two seats swapped
SwappedTest == chi_square_test(call.p2_wins, call.p1_wins, call.draws)

\* C24: with a decisive game the statistic is (p1 - p2)^2 / (p1 + p2): the
\* statistic and its label are the same for any number of draws and with
\* p1_wins and p2_wins swapped, and the statistic is 0 exactly when p1_wins
\* == p2_wins.
C24_DrawsAndSeatsIrrelevant ==
    (CalledChiSquare /\ Decisive > 0) =>
        /\ result = SwappedTest
        /\ \A draws \in (0..MaxDraws) \ {call.draws} :
               result = chi_square_test(call.p1_wins, call.p2_wins, draws)
        /\ result.statistic = FloatZero <=> call.p1_wins = call.p2_wins
        /\ FloatCmp(result.statistic,
                    float_truediv(float_of_int(Lead * Lead),
                                  float_of_int(Decisive))) = 0

\* 20 wins to 30 with a draw: 2.0, as for 30 wins to 20
C24_Witness ==
    /\ CalledChiSquare
    /\ call.p1_wins = 20 /\ call.p2_wins = 30 /\ call.draws = 1
    /\ result.statistic = float_of_int(2)
    /\ result = chi_square_test(30, 20, 0)

\* p1_rate + p2_rate + draw_rate of a record of rates
RateSum(p1_rate, p2_rate, draw_rate) ==
    float_add(float_add(p1_rate, p2_rate), draw_rate)

\* 0 <= x <= 100
IsPercent(x) ==
    float_le(float_of_int(0), x) /\ float_le(x, float_of_int(100))

\* The rates and the difference shown for the group are percentages, and so
\* are the saved rates
RatesArePercents ==
    /\ IsPercent(Shown.p1_rate) /\ IsPercent(Shown.p2_rate)
    /\ IsPercent(Shown.draw_rate) /\ IsPercent(Shown.win_diff)
    /\ IsPercent(result.saved.p1_win_rate) /\ IsPercent(result.saved.p2_win_rate)
    /\ IsPercent(result.saved.draw_rate)

\* C25 as claimed: for a group with total_games > 0 whose counts add up to
\* total_games, p1_rate + p2_rate + draw_rate == 100, each rate lies in
\* [0, 100] and so does the win-rate difference.
C25_RatesSumTo100 ==
    ShownStatistics =>
        /\ RateSum(Shown.p1_rate, Shown.p2_rate, Shown.draw_rate)
               = float_of_int(100)
        /\ RatesArePercents

\* x is within one billionth of 100
Near100(x) ==
    float_le(float_abs(float_sub(x, float_of_int(100))),
             FloatLit(1, 1000000000))

\* C25, amended: for a group of non-negative counts with total_games > 0
\* that add up to total_games, p1_rate + p2_rate + draw_rate is 100 up to
\* the rounding of binary64 (within one billionth), each rate lies in [0,
\* 100] and so does the win-rate difference.
C25_RatesSumNear100 ==
    ShownStatistics =>
        /\ Near100(RateSum(Shown.p1_rate, Shown.p2_rate, Shown.draw_rate))
        /\ Near100(RateSum(result.saved.p1_win_rate, result.saved.p2_win_rate,
                           result.saved.draw_rate))
        /\ RatesArePercents

\* One win each and one draw: three rates of 33.33333333333333 adding up to
\* 99.99999999999999, not 100
C25_Witness ==
    /\ ShownStatistics
    /\ call.data.p1_wins = 1 /\ call.data.p2_wins = 1 /\ call.data.draws = 1
    /\ float_lt(RateSum(Shown.p1_rate, Shown.p2_rate, Shown.draw_rate),
                float_of_int(100))
    /\ Near100(RateSum(Shown.p1_rate, Shown.p2_rate, Shown.draw_rate))

\* C26: "Win rate imbalance detected" is printed for a group exactly when
\* its win-rate difference is above 15 and it has 10 games or more; then its
\* balance label is slight or significant imbalance and its sample-size
\* label is not very-small.
C26_ImbalanceWarning ==
    ShownStatistics =>
        /\ Shown.imbalance_warning <=>
               (/\ float_lt(float_of_int(15), Shown.win_diff)
                /\ call.data.total_games >= 10)
        /\ Shown.imbalance_warning =>
               /\ Shown.status \in {"Slight imbalance", "Significant imbalance"}
               /\ Shown.sample # "Very small sample"

\* 8 wins to 11 with a draw, 20 games: the difference is computed as
\* 15.000000000000007 and the warning is printed with a slight imbalance
C26_Witness ==
    /\ ShownStatistics
    /\ call.data.p1_wins = 8 /\ call.data.p2_wins = 11 /\ call.data.draws = 1
    /\ Shown.imbalance_warning
    /\ Shown.status = "Slight imbalance"
    /\ Shown.sample = "Small sample"

\* The prompt step was taken
Chosen == call.fn = "input"

\* The numbers typed, one per word, or a ValueError where a word is none
TypedNumbers ==
    LET words == split(strip(call.user_input))
    IN  [i \in 1..Len(words) |-> int_of_str(words[i])]

\* Exactly two numbers were typed, both from 1 to the number of game types
TwoInRange ==
    /\ Len(TypedNumbers) = 2
    /\ \A i \in 1..2 :
          /\ ~Raised(TypedNumbers[i])
          /\ TypedNumbers[i].value \in 1..call.game_count

\* C27: with two or more game types both indices are below their number
\* whatever is typed: two game types give (0, 1) without a prompt; with more,
\* two numbers in range select these two and anything else the first two.
C27_IndicesInRange ==
    Chosen =>
        /\ result.idx1 \in 0..(call.game_count - 1)
        /\ result.idx2 \in 0..(call.game_count - 1)
        /\ call.game_count = 2 =>
               /\ result.idx1 = 0 /\ result.idx2 = 1
               /\ result.printed = "Auto-selecting both game types for comparison."
        /\ (call.game_count > 2 /\ TwoInRange) =>
               /\ result.idx1 = TypedNumbers[1].value - 1
               /\ result.idx2 = TypedNumbers[2].value - 1
        /\ (call.game_count > 2 /\ ~TwoInRange) =>
               (result.idx1 = 0 /\ result.idx2 = 1)
        /\ \A a \in 1..call.game_count, b \in 1..call.game_count :
               (/\ call.game_count > 2
                /\ call.user_input = str_of_int(a) \o <<" ">> \o str_of_int(b)) =>
                   (result.idx1 = a - 1 /\ result.idx2 = b - 1)

\* "0 2" typed with three game types: zero is no number of a game type and
\* the first two are compared
C27_Witness ==
    /\ Chosen
    /\ call.game_count = 3
    /\ call.user_input = <<"0", " ", "2">>
    /\ result = FirstTwo("Invalid selection. Using first two.")

\* C28: the two configurations of a comparison are different ones.
C28_DistinctConfigurations ==
    Compared => call.name1 # call.name2

\* The phase-1 analysis has separated the games of the run
Separated == call.fn = "analyze_features" /\ result # Nothing

\* The lengths of the games of the run won by winner whose kifu has moves,
\* in the order of the run
RECURSIVE LengthsWonBy(_, _)
LengthsWonBy(winner, i) ==
    IF i = 0 THEN <<>>
    ELSE LET moves == disk.selfplay_kifu[i].moves
             rest  == LengthsWonBy(winner, i - 1)
         IN  IF disk.selfplay_results.games[i].winner = winner /\ moves # <<>>
             THEN Append(rest, Len(moves))
             ELSE rest

\* C29: the phase-1 analysis puts the features of a game among those of the
\* Player1 winners exactly if Player1 won it and among those of the Player2
\* winners exactly if Player2 won it; a game without a winner is in neither,
\* as in the winning-patterns analysis of the same run.
C29_SeparatedByWinner ==
    Separated =>
        LET games    == Len(disk.selfplay_kifu)
            patterns == analyze_winning_patterns(disk.selfplay_results,
                                                 disk.selfplay_kifu)
        IN  /\ result.p1_features.game_length = LengthsWonBy("Player1", games)
            /\ result.p2_features.game_length = LengthsWonBy("Player2", games)
            /\ result.p1_features = patterns.p1_features
            /\ result.p2_features = patterns.p2_features

\* C30: a run of the update with a drop-rate difference of at most 0.10
\* leaves the stored multiplier as it is, any other run stores the old one
\* plus 0.1 or, at most, 1.5; whatever the multiplier was at the start, no
\* run stores a smaller one.
C30_MultiplierNeverDecreases ==
    [][(call'.fn = "update_ai_config" /\ disk # NoFiles) =>
          LET old_value == disk.ai_config.hand_piece_bonus_multiplier
              new_value == disk'.ai_config.hand_piece_bonus_multiplier
          IN  /\ ~SignificantDropDiff(call'.drop_diff) => disk'.ai_config = disk.ai_config
              /\ SignificantDropDiff(call'.drop_diff) =>
                     \/ new_value = float_add(old_value, FloatLit(1, 10))
                     \/ new_value = FloatLit(3, 2)
              /\ float_le(old_value, new_value)]_vars

=============================================================================
